---- MODULE Spec2Model ----
(***************************************************************************)
(* A model of the CodeAlly task planner (code_ally/agent/task_planner.py)  *)
(* and tool execution manager (code_ally/agent/tool_manager.py).           *)
(*                                                                         *)
(* Python values are tagged records [k, v]: k names the Python type and v  *)
(* holds the value.  A Python string is a sequence of symbols (each symbol *)
(* stands for a run of characters that the modelled code never splits).    *)
(* A Python dict whose insertion order matters (tool arguments) is a       *)
(* sequence of [key, val] pairs with pairwise distinct keys; a dict whose  *)
(* order never matters (a plan, a task, a condition, a tool result) is a   *)
(* TLA+ function on its keys.                                              *)
(***************************************************************************)
EXTENDS Integers, Sequences, FiniteSets, TLC

VARIABLES
    pc,                       \* position of execute_plan: idle, loop, done
    plan,                     \* the plan handed to execute_plan
    idx,                      \* index of the next task of the for loop
    results,                  \* execute_plan local: task id -> result
    completed_tasks,          \* execute_plan local
    failed_tasks,             \* execute_plan local
    execution_history,        \* TaskPlanner.execution_history
    report,                   \* what execute_plan returned
    recent_tool_calls,        \* ToolManager.recent_tool_calls
    current_turn_tool_calls,  \* ToolManager.current_turn_tool_calls
    trust_manager,            \* ToolManager.trust_manager is set
    events,                   \* calls the current operation made to its collaborators
    last,                     \* what the latest step of the loop did
    call,                     \* outcome of the latest execute_tool made by the agent
    input,                    \* arguments of a function evaluated on its own
    output                    \* its value

vars == <<pc, plan, idx, results, completed_tasks, failed_tasks,
          execution_history, report, recent_tool_calls,
          current_turn_tool_calls, trust_manager, events, last, call,
          input, output>>

-----------------------------------------------------------------------------
(* Python values *)

PyNone == [k |-> "none", v |-> 0]
PyBool(b) == [k |-> "bool", v |-> b]
PyInt(n) == [k |-> "int", v |-> n]
PyStr(s) == [k |-> "str", v |-> s]
PyList(s) == [k |-> "list", v |-> s]
PyDict(d) == [k |-> "dict", v |-> d]
PyTrue == PyBool(TRUE)
PyFalse == PyBool(FALSE)

IsNum(a) == a.k \in {"bool", "int"}
Num(a) == IF a.k = "bool" THEN (IF a.v THEN 1 ELSE 0) ELSE a.v

\* Python ==: bool is a subtype of int (True == 1, False == 0).
PyEq(a, b) ==
    IF IsNum(a) /\ IsNum(b) THEN Num(a) = Num(b)
    ELSE a.k = b.k /\ a.v = b.v

\* Python truth value.
PyTruthy(a) ==
    CASE a.k = "none" -> FALSE
      [] a.k = "bool" -> a.v
      [] a.k = "int" -> a.v # 0
      [] a.k = "str" -> Len(a.v) > 0
      [] a.k = "list" -> Len(a.v) > 0
      [] OTHER -> DOMAIN a.v # {}

Has(d, key) == key \in DOMAIN d

\* dict.get(key, default) on a dict modelled as a function
Get(d, key, default) == IF key \in DOMAIN d THEN d[key] ELSE default

\* a dict modelled as a function, extended or overwritten at one key
Put(d, key, val) ==
    [x \in DOMAIN d \cup {key} |-> IF x = key THEN val ELSE d[x]]

EmptyDict == [x \in {} |-> PyNone]

-----------------------------------------------------------------------------
(* Ordered dicts: tool arguments *)

ArgKeys(arguments) == {arguments[i].key : i \in 1..Len(arguments)}
ArgHas(arguments, key) == key \in ArgKeys(arguments)
ArgGet(arguments, key) ==
    LET i == CHOOSE j \in 1..Len(arguments) : arguments[j].key = key
    IN arguments[i].val

\* alphabetical order of the argument names in use
KeyOrder == <<"command", "content", "directory", "file_path", "mode", "path", "pattern">>
KeyRank(key) == CHOOSE i \in 1..Len(KeyOrder) : KeyOrder[i] = key

RECURSIVE SortedItems(_)
\* sorted(arguments.items()): keys are distinct, so the key alone decides
SortedItems(arguments) ==
    IF Len(arguments) = 0 THEN <<>>
    ELSE LET m == CHOOSE i \in 1..Len(arguments) :
                    \A j \in 1..Len(arguments) :
                        KeyRank(arguments[i].key) <= KeyRank(arguments[j].key)
             rest == [j \in 1..(Len(arguments) - 1) |->
                        IF j < m THEN arguments[j] ELSE arguments[j + 1]]
         IN <<arguments[m]>> \o SortedItems(rest)

-----------------------------------------------------------------------------
(* Tool Execution Manager *)

\* ToolManager.tools: the registry, each tool with its requires_confirmation
tools ==
    [bash |-> [requires_confirmation |-> TRUE],
     file_write |-> [requires_confirmation |-> TRUE],
     grep |-> [requires_confirmation |-> FALSE]]

max_recent_calls == 5

NoResult == [none |-> PyNone]

_is_valid_tool(tool_name) == tool_name \in DOMAIN tools

\* the hashable representation of a call
CallKey(tool_name, arguments) == <<tool_name, SortedItems(arguments)>>

\* Python == on two call tuples
CallEq(c, d) ==
    /\ c[1] = d[1]
    /\ Len(c[2]) = Len(d[2])
    /\ \A i \in 1..Len(c[2]) :
          c[2][i].key = d[2][i].key /\ PyEq(c[2][i].val, d[2][i].val)

\* variant: no call is ever found in the list of the turn
_is_redundant_call_Never(tool_name, arguments, current) == FALSE

_is_redundant_call(tool_name, arguments, current) ==
    \E i \in 1..Len(current) : CallEq(current[i], CallKey(tool_name, arguments))

_handle_redundant_call(tool_name, check_context_msg) ==
    LET error_msg == <<"Identical ", tool_name,
                       " call was already executed in this conversation turn.">>
    IN [success |-> PyFalse,
        error |-> PyStr(IF check_context_msg
                        THEN error_msg \o
                             <<" Please check your context for the previous result.">>
                        ELSE error_msg)]

\* variant: the history keeps its oldest entries
_record_tool_call_KeepsOldest(tool_name, arguments, recent, current) ==
    LET r == Append(recent, CallKey(tool_name, arguments))
    IN [recent |-> IF Len(r) > max_recent_calls
                   THEN SubSeq(r, 1, max_recent_calls)
                   ELSE r,
        current |-> Append(current, CallKey(tool_name, arguments))]

\* the two lists after _record_tool_call
_record_tool_call(tool_name, arguments, recent, current) ==
    LET r == Append(recent, CallKey(tool_name, arguments))
    IN [recent |-> IF Len(r) > max_recent_calls
                   THEN SubSeq(r, Len(r) - max_recent_calls + 1, Len(r))
                   ELSE r,
        current |-> Append(current, CallKey(tool_name, arguments))]

\* the first argument, in insertion order, that is a string named path-like
FirstPathLike(arguments, names) ==
    LET hits == {i \in 1..Len(arguments) :
                    arguments[i].val.k = "str" /\ arguments[i].key \in names}
    IN IF hits = {} THEN PyNone
       ELSE arguments[CHOOSE i \in hits : \A j \in hits : i <= j].val

_get_permission_path(tool_name, arguments) ==
    IF tool_name = "bash" /\ ArgHas(arguments, "command")
    THEN [k |-> "args", v |-> arguments]
    ELSE FirstPathLike(arguments, {"path", "file_path", "directory"})

_create_error_result(error_message) ==
    [success |-> PyFalse, error |-> PyStr(error_message)]

\* variant: the error of a raising capability is its bare message
_perform_tool_execution_BareMessage(tool_name, arguments, env) ==
    IF env.outcome.kind = "return"
    THEN env.outcome.result
    ELSE _create_error_result(env.outcome.msg)

\* what the capability does when called: env.outcome is its behaviour
_perform_tool_execution(tool_name, arguments, env) ==
    IF env.outcome.kind = "return"
    THEN env.outcome.result
    ELSE _create_error_result(<<"Error executing ", tool_name, ": ">> \o env.outcome.msg)

Returned(result, lists, evs) ==
    [kind |-> "return", result |-> result, exc |-> "",
     recent |-> lists.recent, current |-> lists.current, events |-> evs]

Raised(exc, lists, evs) ==
    [kind |-> "raise", result |-> NoResult, exc |-> exc,
     recent |-> lists.recent, current |-> lists.current, events |-> evs]

\* the calls made to the collaborators, each with the reply it got
EvIsTrusted(tool_name, subject, env) ==
    [op |-> "is_trusted", tool |-> tool_name, arg |-> subject,
     reply |-> IF env.trusted THEN "true" ELSE "false"]
EvPrompt(tool_name, subject, env) ==
    [op |-> "prompt_for_permission", tool |-> tool_name, arg |-> subject,
     reply |-> CASE env.prompt = "grant" -> "true"
                 [] env.prompt = "deny" -> "false"
                 [] OTHER -> "raise"]
EvExecute(tool_name, arguments, env) ==
    [op |-> "execute", tool |-> tool_name, arg |-> [k |-> "args", v |-> arguments],
     reply |-> env.outcome.kind]

\* variant: the user is prompted whatever is_trusted answers
GatedExecution_AlwaysPrompts(tool_name, arguments, lists, has_tm, env) ==
    LET permission_path == _get_permission_path(tool_name, arguments)
        prompted == <<EvIsTrusted(tool_name, permission_path, env),
                      EvPrompt(tool_name, permission_path, env)>>
    IN IF ~has_tm
       THEN Raised("AttributeError", lists, <<>>)
       ELSE IF env.prompt = "raise"
       THEN Raised("PermissionDeniedError", lists, prompted)
       ELSE IF env.prompt = "deny"
       THEN Returned(_create_error_result(<<"Permission denied for ", tool_name>>),
                     lists, prompted)
       ELSE Returned(_perform_tool_execution(tool_name, arguments, env), lists,
                     prompted \o <<EvExecute(tool_name, arguments, env)>>)

\* the permission check of execute_tool for a tool that requires confirmation
\* and is not pre-approved; the capability runs only when it lets the call pass
GatedExecution(tool_name, arguments, lists, has_tm, env) ==
    LET permission_path == _get_permission_path(tool_name, arguments)
        asked == <<EvIsTrusted(tool_name, permission_path, env)>>
        prompted == asked \o <<EvPrompt(tool_name, permission_path, env)>>
    IN IF ~has_tm
       THEN Raised("AttributeError", lists, <<>>)
       ELSE IF env.trusted
       THEN Returned(_perform_tool_execution(tool_name, arguments, env), lists,
                     asked \o <<EvExecute(tool_name, arguments, env)>>)
       ELSE IF env.prompt = "raise"
       THEN Raised("PermissionDeniedError", lists, prompted)
       ELSE IF env.prompt = "deny"
       THEN Returned(_create_error_result(<<"Permission denied for ", tool_name>>),
                     lists, prompted)
       ELSE Returned(_perform_tool_execution(tool_name, arguments, env), lists,
                     prompted \o <<EvExecute(tool_name, arguments, env)>>)

\* variant: the call is recorded before the tool name is looked up
execute_tool_RecordsFirst(tool_name, arguments, check_context_msg, pre_approved, recent, current, has_tm, env) ==
    LET old == [recent |-> recent, current |-> current]
        lists == _record_tool_call(tool_name, arguments, recent, current)
    IN IF ~_is_valid_tool(tool_name)
       THEN Returned(_create_error_result(<<"Unknown tool: ", tool_name>>), lists, <<>>)
       ELSE IF _is_redundant_call(tool_name, arguments, current)
       THEN Returned(_handle_redundant_call(tool_name, check_context_msg), old, <<>>)
       ELSE IF tools[tool_name].requires_confirmation /\ ~PyTruthy(pre_approved)
       THEN GatedExecution(tool_name, arguments, lists, has_tm, env)
       ELSE Returned(_perform_tool_execution(tool_name, arguments, env),
                     lists, <<EvExecute(tool_name, arguments, env)>>)

\* ToolManager.execute_tool: its outcome, the two lists after it and the calls
\* it made to the Permission Gate and to the capability.  env holds the answers
\* of the collaborators: is_trusted, prompt_for_permission and the capability.
execute_tool(tool_name, arguments, check_context_msg, pre_approved, recent, current, has_tm, env) ==
    LET old == [recent |-> recent, current |-> current]
    IN IF ~_is_valid_tool(tool_name)
       THEN Returned(_create_error_result(<<"Unknown tool: ", tool_name>>), old, <<>>)
       ELSE IF _is_redundant_call(tool_name, arguments, current)
       THEN Returned(_handle_redundant_call(tool_name, check_context_msg), old, <<>>)
       ELSE LET lists == _record_tool_call(tool_name, arguments, recent, current)
            IN IF tools[tool_name].requires_confirmation /\ ~PyTruthy(pre_approved)
               THEN GatedExecution(tool_name, arguments, lists, has_tm, env)
               ELSE Returned(_perform_tool_execution(tool_name, arguments, env),
                             lists, <<EvExecute(tool_name, arguments, env)>>)

-----------------------------------------------------------------------------
(* Task Planner: validate_plan *)

\* str() of a small natural number
StrOfNat(n) == <<"0", "1", "2", "3", "4", "5", "6", "7", "8", "9">>[n + 1]

NoError == <<>>

\* the first error of a sequence of checks made in order (NoError: none failed)
FirstError(errs) ==
    LET bad == {i \in 1..Len(errs) : errs[i] # NoError}
    IN IF bad = {} THEN NoError
       ELSE errs[CHOOSE i \in bad : \A j \in bad : i <= j]

\* tasks_by_id[id]: a later task overwrites an earlier one with the same id
TasksById(tasks, id) ==
    LET hits == {i \in 1..Len(tasks) : Has(tasks[i], "id") /\ tasks[i].id = id}
    IN tasks[CHOOSE i \in hits : \A j \in hits : j <= i]

DeclaredIds(tasks) == {tasks[i].id : i \in 1..Len(tasks)}

\* variant: the registry is looked up before the arguments are
CheckTaskStructure_ToolFirst(task, i) ==
    IF ~Has(task, "id")
    THEN <<"Task at index ", i, " missing 'id' field">>
    ELSE IF ~Has(task, "tool_name")
    THEN <<"Task at index ", i, " missing 'tool_name' field">>
    ELSE IF task.tool_name \notin DOMAIN tools
    THEN <<"Task '", task.id, "' references unknown tool '", task.tool_name, "'">>
    ELSE IF Has(task, "arguments") /\ task.arguments.k # "dict"
    THEN <<"Task '", task.id, "' has invalid 'arguments' (must be a dictionary)">>
    ELSE NoError

\* the body of the first loop of validate_plan, for the task at index i
CheckTaskStructure(task, i) ==
    IF ~Has(task, "id")
    THEN <<"Task at index ", i, " missing 'id' field">>
    ELSE IF ~Has(task, "tool_name")
    THEN <<"Task at index ", i, " missing 'tool_name' field">>
    ELSE IF Has(task, "arguments") /\ task.arguments.k # "dict"
    THEN <<"Task '", task.id, "' has invalid 'arguments' (must be a dictionary)">>
    ELSE IF task.tool_name \notin DOMAIN tools
    THEN <<"Task '", task.id, "' references unknown tool '", task.tool_name, "'">>
    ELSE NoError

CheckDependencies(task, ids) ==
    IF ~Has(task, "depends_on") THEN NoError
    ELSE IF task.depends_on.k # "list"
    THEN <<"Task '", task.id, "' has invalid 'depends_on' (must be a list)">>
    ELSE FirstError([n \in 1..Len(task.depends_on.v) |->
            IF task.depends_on.v[n] \notin ids
            THEN <<"Task '", task.id, "' depends on unknown task '",
                   task.depends_on.v[n], "'">>
            ELSE NoError])

\* variant: the task_id of a task_result condition is not looked up
CheckCondition_AnyTaskId(task, ids) ==
    IF ~Has(task, "condition") THEN NoError
    ELSE IF task.condition.k # "dict"
    THEN <<"Task '", task.id, "' has invalid 'condition' (must be a dictionary)">>
    ELSE LET condition == task.condition.v
         IN IF ~Has(condition, "type")
            THEN <<"Task '", task.id, "' condition missing 'type' field">>
            ELSE IF condition.type \notin {"task_result", "expression"}
            THEN <<"Task '", task.id, "' has invalid condition type '",
                   condition.type, "'">>
            ELSE IF condition.type = "task_result" /\ ~Has(condition, "task_id")
            THEN <<"Task '", task.id, "' condition missing 'task_id' field">>
            ELSE NoError

CheckCondition(task, ids) ==
    IF ~Has(task, "condition") THEN NoError
    ELSE IF task.condition.k # "dict"
    THEN <<"Task '", task.id, "' has invalid 'condition' (must be a dictionary)">>
    ELSE LET condition == task.condition.v
         IN IF ~Has(condition, "type")
            THEN <<"Task '", task.id, "' condition missing 'type' field">>
            ELSE IF condition.type \notin {"task_result", "expression"}
            THEN <<"Task '", task.id, "' has invalid condition type '",
                   condition.type, "'">>
            ELSE IF condition.type = "task_result" /\ ~Has(condition, "task_id")
            THEN <<"Task '", task.id, "' condition missing 'task_id' field">>
            ELSE IF condition.type = "task_result" /\ condition.task_id \notin ids
            THEN <<"Task '", task.id, "' condition references unknown task '",
                   condition.task_id, "'">>
            ELSE NoError

\* variant: a task that reaches itself through any chain of depends_on is
\* reported, not only one that is listed by its own dependency
CheckCycle_AnyLength(task, tasks) ==
    LET deps(id) ==
            IF Has(TasksById(tasks, id), "depends_on")
            THEN {TasksById(tasks, id).depends_on.v[n] :
                    n \in 1..Len(TasksById(tasks, id).depends_on.v)}
            ELSE {}
        RECURSIVE reach(_, _)
        reach(S, k) ==
            IF k = 0 THEN S ELSE reach(S \cup UNION {deps(x) : x \in S}, k - 1)
    IN IF ~Has(task, "depends_on") THEN NoError
       ELSE IF task.id \in reach({task.depends_on.v[n] : n \in 1..Len(task.depends_on.v)},
                                 Len(tasks))
       THEN <<"Circular dependency detected between tasks '", task.id,
              "' and '", task.depends_on.v[1], "'">>
       ELSE NoError

\* variant: a task that lists its own id is not looked at
CheckCycle_IgnoresSelf(task, tasks) ==
    IF ~Has(task, "depends_on") THEN NoError
    ELSE FirstError([n \in 1..Len(task.depends_on.v) |->
            LET dep_id == task.depends_on.v[n]
                dep_task == TasksById(tasks, dep_id)
            IN IF /\ dep_id # task.id
                  /\ Has(dep_task, "depends_on")
                  /\ \E m \in 1..Len(dep_task.depends_on.v) :
                        dep_task.depends_on.v[m] = task.id
               THEN <<"Circular dependency detected between tasks '", task.id,
                      "' and '", dep_id, "'">>
               ELSE NoError])

\* the symmetric-pair check: a dependency that lists the task among its own
CheckCycle(task, tasks) ==
    IF ~Has(task, "depends_on") THEN NoError
    ELSE FirstError([n \in 1..Len(task.depends_on.v) |->
            LET dep_id == task.depends_on.v[n]
                dep_task == TasksById(tasks, dep_id)
            IN IF /\ Has(dep_task, "depends_on")
                  /\ \E m \in 1..Len(dep_task.depends_on.v) :
                        dep_task.depends_on.v[m] = task.id
               THEN <<"Circular dependency detected between tasks '", task.id,
                      "' and '", dep_id, "'">>
               ELSE NoError])

\* validate_plan: NoError when the plan is accepted, else the error message
validate_plan(p) ==
    IF ~Has(p, "name") THEN <<"Plan missing 'name' field">>
    ELSE IF ~Has(p, "description") THEN <<"Plan missing 'description' field">>
    ELSE IF ~Has(p, "tasks") \/ p.tasks.k # "list"
    THEN <<"Plan missing 'tasks' list or 'tasks' is not a list">>
    ELSE IF Len(p.tasks.v) = 0 THEN <<"Plan contains no tasks">>
    ELSE LET tasks == p.tasks.v
             ids == DeclaredIds(tasks)
             structure == FirstError([i \in 1..Len(tasks) |->
                                        CheckTaskStructure(tasks[i], StrOfNat(i - 1))])
             dependencies == FirstError([i \in 1..Len(tasks) |->
                                           CheckDependencies(tasks[i], ids)])
             conditions == FirstError([i \in 1..Len(tasks) |->
                                         CheckCondition(tasks[i], ids)])
         IN IF structure # NoError THEN structure
            ELSE IF dependencies # NoError THEN dependencies
            ELSE IF conditions # NoError THEN conditions
            ELSE FirstError([i \in 1..Len(tasks) |-> CheckCycle(tasks[i], tasks)])

-----------------------------------------------------------------------------
(* Task Planner: _evaluate_condition *)

\* variant: the operator is ignored and every comparison is an equality
_evaluate_condition_AlwaysEquals(condition, res) ==
    IF condition.type = "task_result"
    THEN IF condition.task_id \notin DOMAIN res THEN FALSE
         ELSE PyEq(Get(res[condition.task_id], Get(condition, "field", "success"), PyNone),
                   Get(condition, "value", PyTrue))
    ELSE condition.type = "expression"

_evaluate_condition(condition, res) ==
    IF condition.type = "task_result"
    THEN IF condition.task_id \notin DOMAIN res THEN FALSE
         ELSE LET task_result == res[condition.task_id]
                  field == Get(condition, "field", "success")
                  expected_value == Get(condition, "value", PyTrue)
                  actual_value == Get(task_result, field, PyNone)
              IN IF Has(condition, "operator") /\ condition.operator = "not_equals"
                 THEN ~PyEq(actual_value, expected_value)
                 ELSE PyEq(actual_value, expected_value)
    ELSE IF condition.type = "expression" THEN TRUE
    ELSE FALSE

-----------------------------------------------------------------------------
(* Task Planner: _process_template_vars *)

IsPrefixAt(s, pat, i) ==
    /\ i + Len(pat) - 1 <= Len(s)
    /\ SubSeq(s, i, i + Len(pat) - 1) = pat

\* Python: pat in s
Contains(s, pat) == \E i \in 1..(Len(s) + 1) : IsPrefixAt(s, pat, i)

RECURSIVE ReplaceFrom(_, _, _, _)
ReplaceFrom(s, pat, rep, i) ==
    IF i > Len(s) THEN <<>>
    ELSE IF IsPrefixAt(s, pat, i)
    THEN rep \o ReplaceFrom(s, pat, rep, i + Len(pat))
    ELSE <<s[i]>> \o ReplaceFrom(s, pat, rep, i + 1)

\* Python: s.replace(pat, rep), pat not empty
Replace(s, pat, rep) == ReplaceFrom(s, pat, rep, 1)

\* Python: str(value), as a string of symbols; a container prints as one symbol
Str(a) ==
    CASE a.k = "str" -> a.v
      [] a.k = "none" -> <<"None">>
      [] a.k = "bool" -> IF a.v THEN <<"True">> ELSE <<"False">>
      [] a.k = "int" -> <<StrOfNat(a.v)>>
      [] OTHER -> <<"<repr>">>

\* Python: s.split("."), the segments in order
RECURSIVE SplitDots(_)
SplitDots(s) ==
    LET dots == {i \in 1..Len(s) : s[i] = "."}
    IN IF dots = {} THEN <<s>>
       ELSE LET d == CHOOSE i \in dots : \A j \in dots : i <= j
            IN <<SubSeq(s, 1, d - 1)>> \o SplitDots(SubSeq(s, d + 1, Len(s)))

\* variant: the loop over field_path stops after its first segment
Navigate_FirstSegmentOnly(field_value, field_path, n, var_def) ==
    IF /\ field_value.k = "dict"
       /\ Len(field_path[1]) = 1
       /\ field_path[1][1] \in DOMAIN field_value.v
    THEN field_value.v[field_path[1][1]]
    ELSE Get(var_def, "default", PyStr(<<>>))

\* the loop over field_path: one mapping key per segment, else the default
RECURSIVE Navigate(_, _, _, _)
Navigate(field_value, field_path, n, var_def) ==
    IF n > Len(field_path) THEN field_value
    ELSE IF /\ field_value.k = "dict"
            /\ Len(field_path[n]) = 1
            /\ field_path[n][1] \in DOMAIN field_value.v
    THEN Navigate(field_value.v[field_path[n][1]], field_path, n + 1, var_def)
    ELSE Get(var_def, "default", PyStr(<<>>))

Exc(msg) == [k |-> "exc", v |-> msg]

\* one pass of the loop over template_vars on a string argument
SubstituteVar(processed_value, var_name, var_def, res) ==
    LET placeholder == <<"$", "{">> \o var_name \o <<"}">>
    IN IF processed_value.k = "exc" \/ ~Contains(processed_value.v, placeholder)
       THEN processed_value
       ELSE IF Has(var_def, "type") /\ var_def.type = "task_result"
       THEN IF ~Has(var_def, "task_id") THEN Exc(<<"'task_id'">>)
            ELSE IF var_def.task_id \in DOMAIN res
            THEN LET result_value == res[var_def.task_id]
                     field_value ==
                        Navigate(PyDict(result_value), SplitDots(var_def.field.v), 1, var_def)
                     replacement_value ==
                        IF Has(var_def, "field")
                        THEN SelectSeq(Str(field_value), LAMBDA c : c # "\n")
                        ELSE <<"<json>">>
                 IN PyStr(Replace(processed_value.v, placeholder, replacement_value))
            ELSE PyStr(Replace(processed_value.v, placeholder,
                               Str(Get(var_def, "default", PyStr(<<>>)))))
       ELSE IF Has(var_def, "type") /\ var_def.type = "static"
       THEN PyStr(Replace(processed_value.v, placeholder,
                          Str(Get(var_def, "value", PyStr(<<>>)))))
       ELSE processed_value

\* variant: the variables are taken from the last declared to the first
SubstituteString_LastFirst(processed_value, template_vars, n, res) ==
    LET RECURSIVE back(_, _)
        back(value, m) ==
            IF m < n THEN value
            ELSE back(SubstituteVar(value, template_vars[m].key,
                                    template_vars[m].val, res), m - 1)
    IN back(processed_value, Len(template_vars))

RECURSIVE SubstituteString(_, _, _, _)
\* the loop over template_vars.items(), in insertion order, from entry n on
SubstituteString(processed_value, template_vars, n, res) ==
    IF n > Len(template_vars) THEN processed_value
    ELSE SubstituteString(
            SubstituteVar(processed_value, template_vars[n].key,
                          template_vars[n].val, res),
            template_vars, n + 1, res)

\* variant: a string item of a list is left as it is
SubstituteItem_Untouched(processed_item, template_vars, n) == processed_item

\* the simplified loop used for a string that is an item of a list argument
RECURSIVE SubstituteItem(_, _, _)
SubstituteItem(processed_item, template_vars, n) ==
    IF n > Len(template_vars) THEN processed_item
    ELSE LET var_def == template_vars[n].val
             placeholder == <<"$", "{">> \o template_vars[n].key \o <<"}">>
             replacement == Str(Get(var_def, "value", Get(var_def, "default", PyStr(<<>>))))
         IN SubstituteItem(
                IF Contains(processed_item.v, placeholder)
                THEN PyStr(Replace(processed_item.v, placeholder, replacement))
                ELSE processed_item,
                template_vars, n + 1)

\* the first exception raised while the values of a sequence were computed
FirstExc(vals) ==
    LET bad == {i \in 1..Len(vals) : vals[i].k = "exc"}
    IN vals[CHOOSE i \in bad : \A j \in bad : i <= j]

AnyExc(vals) == \E i \in 1..Len(vals) : vals[i].k = "exc"

\* variant: only the string values are processed, the others are left out
_process_template_vars_StringsOnly(arguments, template_vars, res) ==
    LET strings == SelectSeq(arguments, LAMBDA a : a.val.k = "str")
        vals == [i \in 1..Len(strings) |->
                    SubstituteString(strings[i].val, template_vars, 1, res)]
    IN IF AnyExc(vals) THEN FirstExc(vals)
       ELSE PyDict([i \in 1..Len(strings) |->
                      [key |-> strings[i].key, val |-> vals[i]]])

RECURSIVE _process_template_vars(_, _, _)
\* arguments: the [key, val] pairs of a dict; the result is PyDict of the
\* processed pairs, or Exc when the substitution raised
_process_template_vars(arguments, template_vars, res) ==
    LET item(x) ==
            IF x.k = "str" THEN SubstituteItem(x, template_vars, 1)
            ELSE IF x.k = "dict" THEN _process_template_vars(x.v, template_vars, res)
            ELSE x
        list(value) == [i \in 1..Len(value.v) |-> item(value.v[i])]
        one(value) ==
            IF value.k = "str" THEN SubstituteString(value, template_vars, 1, res)
            ELSE IF value.k = "dict"
            THEN _process_template_vars(value.v, template_vars, res)
            ELSE IF value.k = "list"
            THEN IF AnyExc(list(value)) THEN FirstExc(list(value))
                 ELSE PyList(list(value))
            ELSE value
        vals == [i \in 1..Len(arguments) |-> one(arguments[i].val)]
    IN IF AnyExc(vals) THEN FirstExc(vals)
       ELSE PyDict([i \in 1..Len(arguments) |->
                      [key |-> arguments[i].key, val |-> vals[i]]])

-----------------------------------------------------------------------------
(* Task Planner: permission pre-collection *)

\* arguments of a task: task.get("arguments", {})
TaskArguments(task) == IF Has(task, "arguments") THEN task.arguments.v ELSE <<>>

\* variant: the operations are collected from the last task to the first
_collect_permission_operations_Reversed(p) ==
    LET tasks == p.tasks.v
        at(i) == tasks[Len(tasks) + 1 - i]
        RECURSIVE collect(_)
        collect(i) ==
            IF i > Len(tasks) THEN <<>>
            ELSE (IF at(i).tool_name \in DOMAIN tools /\ tools[at(i).tool_name].requires_confirmation
                  THEN <<[tool |-> at(i).tool_name,
                          path |-> IF at(i).tool_name = "bash" /\ ArgHas(TaskArguments(at(i)), "command")
                                   THEN [k |-> "args", v |-> TaskArguments(at(i))]
                                   ELSE FirstPathLike(TaskArguments(at(i)), {"path", "file_path"})]>>
                  ELSE <<>>) \o collect(i + 1)
    IN collect(1)

\* the (tool_name, path) pairs of _collect_permission_operations, in task order
_collect_permission_operations(p) ==
    LET tasks == p.tasks.v
        needs == {i \in 1..Len(tasks) :
                    /\ tasks[i].tool_name \in DOMAIN tools
                    /\ tools[tasks[i].tool_name].requires_confirmation}
        op(task) ==
            LET arguments == TaskArguments(task)
            IN [tool |-> task.tool_name,
                path |-> IF task.tool_name = "bash" /\ ArgHas(arguments, "command")
                         THEN [k |-> "args", v |-> arguments]
                         ELSE FirstPathLike(arguments, {"path", "file_path"})]
        RECURSIVE collect(_)
        collect(i) ==
            IF i > Len(tasks) THEN <<>>
            ELSE (IF i \in needs THEN <<op(tasks[i])>> ELSE <<>>) \o collect(i + 1)
    IN collect(1)

\* variant: the batch id handed to execute_tool is the empty string
batch_id_Empty == PyStr(<<>>)

\* batch_id = f"task-plan-{int(time.time())}": never the empty string
batch_id == PyStr(<<"task-plan-", "<time>">>)

EvBatch(operations, answer) ==
    [op |-> "prompt_for_parallel_operations", tool |-> "",
     arg |-> [k |-> "batch", v |-> operations, id |-> batch_id],
     reply |-> IF answer THEN "true" ELSE "false"]

\* variant: the reply of the Permission Gate is not looked at
_request_plan_permissions_ReplyIgnored(operations, has_tm, answer) ==
    IF Len(operations) = 0 \/ ~has_tm THEN [granted |-> TRUE, events |-> <<>>]
    ELSE [granted |-> TRUE, events |-> <<EvBatch(operations, answer)>>]

\* _request_plan_permissions: answer is what the Permission Gate replies
_request_plan_permissions(operations, has_tm, answer) ==
    IF Len(operations) = 0 THEN [granted |-> TRUE, events |-> <<>>]
    ELSE IF ~has_tm THEN [granted |-> FALSE, events |-> <<>>]
    ELSE [granted |-> answer, events |-> <<EvBatch(operations, answer)>>]

-----------------------------------------------------------------------------
(* Task Planner: execute_plan *)

InSeq(x, s) == \E i \in 1..Len(s) : s[i] = x

NoReport == [none |-> TRUE]
NoPlan == [none |-> TRUE]
NoLast == [idx |-> 0, kind |-> "none", id |-> ""]
NoLists == [recent |-> <<>>, current |-> <<>>]
NoCall ==
    [kind |-> "none", result |-> NoResult, exc |-> "", tool |-> "", arguments |-> <<>>,
     pre_approved |-> PyFalse, before |-> NoLists, after |-> NoLists]
NoInput == [none |-> TRUE]
NoOutput == [none |-> TRUE]

\* stop_on_failure read with the default true
StopOnFailure_DefaultTrue(p) == PyTruthy(Get(p, "stop_on_failure", PyTrue))

StopOnFailure(p) == PyTruthy(Get(p, "stop_on_failure", PyFalse))

\* variant: a dependency skipped for its condition counts as not completed
DependenciesMet_SkippedUnmet(task, completed, failed) ==
    \/ ~Has(task, "depends_on")
    \/ \A n \in 1..Len(task.depends_on.v) :
          /\ ~(~InSeq(task.depends_on.v[n], completed) \/ InSeq(task.depends_on.v[n], failed))
          /\ ~Has(Get(results, task.depends_on.v[n], [none |-> TRUE]), "skipped")

\* the check with "and" written for "or"
DependenciesMet_AndForOr(task, completed, failed) ==
    \/ ~Has(task, "depends_on")
    \/ \A n \in 1..Len(task.depends_on.v) :
          ~(~InSeq(task.depends_on.v[n], completed) /\ InSeq(task.depends_on.v[n], failed))

\* the dependency check at the head of the loop body
DependenciesMet(task, completed, failed) ==
    \/ ~Has(task, "depends_on")
    \/ \A n \in 1..Len(task.depends_on.v) :
          ~(~InSeq(task.depends_on.v[n], completed) \/ InSeq(task.depends_on.v[n], failed))

DependencyFailure ==
    [success |-> PyFalse, error |-> PyStr(<<"Dependencies not met">>), skipped |-> PyTrue]

\* variant: a task whose condition is not met is recorded as a failure
ConditionSkip_AsFailure ==
    [success |-> PyFalse, skipped |-> PyTrue, reason |-> PyStr(<<"Condition not met">>)]

ConditionSkip ==
    [success |-> PyTrue, skipped |-> PyTrue, reason |-> PyStr(<<"Condition not met">>)]

\* variant: the template variables of the task are never substituted
ResolvedArguments_Unsubstituted(task, res) == PyDict(TaskArguments(task))

\* the arguments the tool is called with: Exc when the substitution raised
ResolvedArguments(task, res) ==
    IF Has(task, "template_vars")
    THEN _process_template_vars(TaskArguments(task), task.template_vars, res)
    ELSE PyDict(TaskArguments(task))

\* the three returns of execute_plan
\* variant: the message of the validator is left out of the report
InvalidPlanReport_NoDetail(p, error) ==
    [success |-> FALSE, error |-> <<"Invalid plan">>,
     plan_name |-> Get(p, "name", "unknown"), results |-> EmptyDict,
     completed_tasks |-> <<>>, failed_tasks |-> <<>>]

InvalidPlanReport(p, error) ==
    [success |-> FALSE, error |-> <<"Invalid plan: ">> \o error,
     plan_name |-> Get(p, "name", "unknown"), results |-> EmptyDict,
     completed_tasks |-> <<>>, failed_tasks |-> <<>>]

PermissionDeniedReport(p) ==
    [success |-> FALSE, error |-> <<"Permission denied for task plan operations">>,
     plan_name |-> Get(p, "name", "unknown"), results |-> EmptyDict,
     completed_tasks |-> <<>>, failed_tasks |-> <<>>]

RECURSIVE Join(_, _)
\* Python: sep.join(items)
Join(sep, items) ==
    IF Len(items) = 0 THEN <<>>
    ELSE IF Len(items) = 1 THEN <<items[1]>>
    ELSE <<items[1], sep>> \o Join(sep, Tail(items))

\* variant: the run counts as a success as soon as one task completed
PlanSummary_SuccessIfAnyCompleted(p, res, completed, failed) ==
    [success |-> Len(failed) = 0 \/ Len(completed) > 0,
     error |-> IF Len(failed) = 0 \/ Len(completed) > 0 THEN <<>>
               ELSE <<"Failed tasks: ">> \o Join(", ", failed),
     plan_name |-> p.name, description |-> Get(p, "description", ""),
     results |-> res, completed_tasks |-> completed, failed_tasks |-> failed,
     execution_time |-> "<seconds>"]

PlanSummary(p, res, completed, failed) ==
    [success |-> Len(failed) = 0,
     error |-> IF Len(failed) = 0 THEN <<>>
               ELSE <<"Failed tasks: ">> \o Join(", ", failed),
     plan_name |-> p.name, description |-> Get(p, "description", ""),
     results |-> res, completed_tasks |-> completed, failed_tasks |-> failed,
     execution_time |-> "<seconds>"]

\* variant: the report of an exception carries nothing of what was accumulated
ExceptionReport_DropsPartial(p, msg, res, completed, failed) ==
    [success |-> FALSE, error |-> <<"Error executing plan: ">> \o msg,
     plan_name |-> Get(p, "name", "unknown"), results |-> EmptyDict,
     completed_tasks |-> <<>>, failed_tasks |-> <<>>]

ExceptionReport(p, msg, res, completed, failed) ==
    [success |-> FALSE, error |-> <<"Error executing plan: ">> \o msg,
     plan_name |-> Get(p, "name", "unknown"), results |-> res,
     completed_tasks |-> completed, failed_tasks |-> failed]

-----------------------------------------------------------------------------
(* The inputs: plans, and the answers of the collaborators *)

\* the most calls of execute_tool in one behaviour: those the agent makes
\* itself and one for each task of the plan it submits
MaxCalls == 2

TaskIds == {"t1", "t2"}

Arg(key, val) == [key |-> key, val |-> val]

GrepArgs(pattern) == <<Arg("pattern", PyStr(<<pattern>>))>>
BashArgs == <<Arg("command", PyStr(<<"pwd">>))>>
WriteArgs == <<Arg("path", PyStr(<<"$", "{", "d", "}", "/f.txt">>)),
               Arg("content", PyStr(<<"hi">>))>>

\* a variable read from the output of another task
FromTask(other) ==
    <<[key |-> <<"d">>,
       val |-> [type |-> "task_result", task_id |-> other,
                field |-> PyStr(<<"output">>), default |-> PyStr(<<"/tmp">>)]]>>
Malformed == <<[key |-> <<"d">>, val |-> [type |-> "task_result"]]>>

CountNotZero(other) ==
    PyDict([type |-> "task_result", task_id |-> other, field |-> "count",
            operator |-> "not_equals", value |-> PyInt(0)])
Succeeded(other) == PyDict([type |-> "task_result", task_id |-> other])
Expression == PyDict([type |-> "expression"])

Task(id, tool_name, arguments) ==
    [id |-> id, tool_name |-> tool_name, arguments |-> PyDict(arguments)]

\* the task shapes a valid plan is built from; other is the task referred to
TaskShapes(id, other) ==
    {Task(id, "grep", GrepArgs("x")),
     Put(Task(id, "grep", GrepArgs("y")), "depends_on", PyList(<<other>>)),
     Put(Task(id, "grep", GrepArgs("z")), "condition", CountNotZero(other)),
     Put(Task(id, "bash", BashArgs), "condition", Succeeded(other)),
     Put(Put(Put(Task(id, "file_write", WriteArgs), "template_vars", FromTask(other)),
             "depends_on", PyList(<<other>>)), "condition", Expression)}

TaskSpecs ==
    TaskShapes("t1", "t2") \cup TaskShapes("t2", "t1")
    \cup {Put(Task("t2", "file_write", WriteArgs), "template_vars", Malformed)}

TaskLists == UNION {[1..n -> TaskSpecs] : n \in 1..MaxCalls}

\* plans that validate_plan rejects
InvalidTaskLists ==
    {<<Task("t1", "nope", GrepArgs("x"))>>,
     <<Put(Task("t1", "grep", GrepArgs("x")), "depends_on", PyList(<<"missing">>))>>,
     <<>>}

StopOptions(p) ==
    {p, Put(p, "stop_on_failure", PyTrue), Put(p, "stop_on_failure", PyFalse)}

Plans ==
    UNION {StopOptions([name |-> "demo", description |-> "a plan", tasks |-> PyList(ts)])
            : ts \in TaskLists \cup InvalidTaskLists}
    \cup {[name |-> "demo", tasks |-> PyList(<<Task("t1", "grep", GrepArgs("x"))>>)]}

\* what a capability may do when it is called
Outcomes ==
    {[kind |-> "return", msg |-> <<>>,
      result |-> [success |-> PyTrue, count |-> PyInt(n), output |-> PyStr(<<"/home/u">>)]]
        : n \in {0, 1}}
    \cup
    {[kind |-> "return", msg |-> <<>>,
      result |-> [success |-> PyFalse, error |-> PyStr(<<"boom">>)]],
     [kind |-> "raise", msg |-> <<"boom">>, result |-> NoResult]}

\* the answers of the Permission Gate: is_trusted, and prompt_for_permission
\* (asked only when is_trusted answered false)
GateAnswers ==
    {[trusted |-> TRUE, prompt |-> "grant"]}
    \cup {[trusted |-> FALSE, prompt |-> a] : a \in {"grant", "deny", "raise"}}

\* the answers of the collaborators during one call of execute_tool
Envs ==
    {[trusted |-> g.trusted, prompt |-> g.prompt, outcome |-> o]
        : g \in GateAnswers, o \in Outcomes}

\* the answers of the collaborators during a call of execute_tool made by
\* the loop of execute_plan: the answers of the Permission Gate are read only
\* when the batch id handed over as pre_approved is falsy
LoopEnvs ==
    IF PyTruthy(batch_id)
    THEN {e \in Envs : e.trusted /\ e.prompt = "grant"}
    ELSE Envs

\* the calls the agent makes outside a plan
DirectCalls ==
    {[tool |-> "grep", arguments |-> GrepArgs("x"), pre_approved |-> PyFalse],
     [tool |-> "bash", arguments |-> BashArgs, pre_approved |-> PyFalse],
     [tool |-> "bash", arguments |-> BashArgs, pre_approved |-> PyTrue],
     [tool |-> "nope", arguments |-> GrepArgs("x"), pre_approved |-> PyFalse]}

-----------------------------------------------------------------------------
(* The state machine *)

Init ==
    /\ pc = "idle"
    /\ plan = NoPlan
    /\ idx = 0
    /\ results = EmptyDict
    /\ completed_tasks = <<>>
    /\ failed_tasks = <<>>
    /\ execution_history = <<>>
    /\ report = NoReport
    /\ recent_tool_calls = <<>>
    /\ current_turn_tool_calls = <<>>
    /\ trust_manager \in BOOLEAN
    /\ events = <<>>
    /\ last = NoLast
    /\ call = NoCall
    /\ input = NoInput
    /\ output = NoOutput

\* one call of execute_tool(tool_name, arguments) by the agent
AgentCall(c, env) ==
    /\ pc = "idle"
    /\ LET out == execute_tool(c.tool, c.arguments, TRUE, c.pre_approved,
                               recent_tool_calls, current_turn_tool_calls,
                               trust_manager, env)
       IN /\ call' = [kind |-> out.kind, result |-> out.result, exc |-> out.exc,
                      tool |-> c.tool, arguments |-> c.arguments,
                      pre_approved |-> c.pre_approved,
                      before |-> [recent |-> recent_tool_calls,
                                  current |-> current_turn_tool_calls],
                      after |-> [recent |-> out.recent, current |-> out.current]]
          /\ recent_tool_calls' = out.recent
          /\ current_turn_tool_calls' = out.current
          /\ events' = out.events
    /\ UNCHANGED <<pc, plan, idx, results, completed_tasks, failed_tasks,
                   execution_history, report, trust_manager, last, input, output>>

\* the agent calls execute_tool(tool_name, arguments) outside a plan
DirectCall(c, env) ==
    /\ pc = "idle"
    /\ Len(recent_tool_calls) < MaxCalls
    /\ AgentCall(c, env)

\* the agent starts a new turn: it clears the turn-scoped list of calls
NewTurn ==
    /\ pc = "idle"
    /\ current_turn_tool_calls # <<>>
    /\ current_turn_tool_calls' = <<>>
    /\ UNCHANGED <<pc, plan, idx, results, completed_tasks, failed_tasks,
                   execution_history, report, recent_tool_calls, trust_manager,
                   events, last, call, input, output>>

\* the tasks of the plan fit in what is left of MaxCalls
WithinBudget(p) ==
    Has(p, "tasks") => Len(p.tasks.v) + Len(recent_tool_calls) <= MaxCalls

\* execute_plan up to the loop: validation and the batched permission request
ExecutePlan(p, answer) ==
    /\ pc = "idle"
    /\ plan' = p
    /\ execution_history' = <<>>
    /\ LET error == validate_plan(p)
           operations == _collect_permission_operations(p)
           asked == _request_plan_permissions(operations, trust_manager, answer)
       IN IF error # NoError
          THEN /\ report' = InvalidPlanReport(p, error)
               /\ pc' = "done"
               /\ events' = <<>>
          ELSE IF Len(operations) > 0 /\ ~asked.granted
          THEN /\ report' = PermissionDeniedReport(p)
               /\ pc' = "done"
               /\ events' = asked.events
          ELSE /\ report' = NoReport
               /\ pc' = "loop"
               /\ events' = asked.events
    /\ idx' = 1
    /\ results' = EmptyDict
    /\ completed_tasks' = <<>>
    /\ failed_tasks' = <<>>
    /\ last' = NoLast
    /\ call' = NoCall
    /\ UNCHANGED <<recent_tool_calls, current_turn_tool_calls, trust_manager,
                   input, output>>

\* BaseTool._format_error_response and _format_success_response
FormatError(msg) == [success |-> FALSE, error |-> msg]
FormatSuccess(fields) == [success |-> TRUE] @@ fields

\* variant: task_count is the number of keys of the plan
ValidateOnlyResponse_CountsKeys(p) ==
    LET error == validate_plan(p)
    IN IF error # NoError THEN FormatError(<<"Invalid plan: ">> \o error)
       ELSE FormatSuccess([plan_name |-> Get(p, "name", ""),
                           description |-> Get(p, "description", ""),
                           task_count |-> Cardinality(DOMAIN p),
                           message |-> "Plan validation successful"])

\* what TaskPlanTool.execute(plan, validate_only=True) returns
ValidateOnlyResponse(p) ==
    LET error == validate_plan(p)
    IN IF error # NoError THEN FormatError(<<"Invalid plan: ">> \o error)
       ELSE FormatSuccess([plan_name |-> Get(p, "name", ""),
                           description |-> Get(p, "description", ""),
                           task_count |-> Len(p.tasks.v),
                           message |-> "Plan validation successful"])

\* TaskPlanTool.execute with validate_only set: the plan is validated and the
\* response returned; execute_plan is not reached
ValidateOnly(p) ==
    /\ pc = "idle"
    /\ Has(p, "tasks") => Len(p.tasks.v) + Len(recent_tool_calls) <= MaxCalls
    /\ pc' = "validated"
    /\ plan' = p
    /\ output' = ValidateOnlyResponse(p)
    /\ call' = NoCall
    /\ UNCHANGED <<idx, results, completed_tasks, failed_tasks, execution_history,
                   report, recent_tool_calls, current_turn_tool_calls, trust_manager,
                   events, last, input>>

\* variant: the result of a failed task is not stored
Bookkeeping_DropsFailedResult(task, arguments, raw_result) ==
    LET ok == PyTruthy(Get(raw_result, "success", PyFalse))
    IN /\ results' = IF ok THEN Put(results, task.id, raw_result) ELSE results
       /\ execution_history' =
             Append(execution_history,
                    [task_id |-> task.id, tool_name |-> task.tool_name,
                     arguments |-> arguments,
                     success |-> Get(raw_result, "success", PyFalse)])
       /\ completed_tasks' = IF ok THEN Append(completed_tasks, task.id)
                             ELSE completed_tasks
       /\ failed_tasks' = IF ok THEN failed_tasks ELSE Append(failed_tasks, task.id)
       /\ pc' = IF ~ok /\ StopOnFailure(plan) THEN "stopped" ELSE "loop"
       /\ report' = report

\* the bookkeeping after execute_tool returned raw_result for the task
Bookkeeping(task, arguments, raw_result) ==
    LET ok == PyTruthy(Get(raw_result, "success", PyFalse))
    IN /\ results' = Put(results, task.id, raw_result)
       /\ execution_history' =
             Append(execution_history,
                    [task_id |-> task.id, tool_name |-> task.tool_name,
                     arguments |-> arguments,
                     success |-> Get(raw_result, "success", PyFalse)])
       /\ completed_tasks' = IF ok THEN Append(completed_tasks, task.id)
                             ELSE completed_tasks
       /\ failed_tasks' = IF ok THEN failed_tasks ELSE Append(failed_tasks, task.id)
       /\ pc' = IF ~ok /\ StopOnFailure(plan) THEN "stopped" ELSE "loop"
       /\ report' = report

\* the except clause of execute_plan: the loop ends and the report is returned
Abort(msg) ==
    /\ pc' = "done"
    /\ report' = ExceptionReport(plan, msg, results, completed_tasks, failed_tasks)
    /\ UNCHANGED <<results, completed_tasks, failed_tasks, execution_history>>

\* the call to execute_tool and what follows it in the loop body
Dispatch(task, arguments, env) ==
    LET out == execute_tool(task.tool_name, arguments, TRUE, batch_id,
                            recent_tool_calls, current_turn_tool_calls,
                            trust_manager, env)
    IN /\ recent_tool_calls' = out.recent
       /\ current_turn_tool_calls' = out.current
       /\ events' = events \o out.events
       /\ IF out.kind = "raise"
          THEN /\ Abort(<<out.exc>>)
               /\ last' = [idx |-> idx, kind |-> "exception", id |-> task.id]
          ELSE /\ Bookkeeping(task, arguments, out.result)
               /\ last' = [idx |-> idx, kind |-> "dispatched", id |-> task.id]

\* variant: the resolved arguments are written back into the task of the plan
TaskStep_RewritesArguments(env) ==
    /\ pc = "loop"
    /\ idx <= Len(plan.tasks.v)
    /\ idx' = idx + 1
    /\ LET resolved == ResolvedArguments(plan.tasks.v[idx], results)
       IN plan' = IF resolved.k = "exc" THEN plan
                  ELSE [plan EXCEPT !.tasks.v[idx] = Put(@, "arguments", resolved)]
    /\ UNCHANGED <<pc, results, completed_tasks, failed_tasks, execution_history,
                   report, recent_tool_calls, current_turn_tool_calls,
                   trust_manager, events, last, call, input, output>>

\* one iteration of the loop over plan["tasks"]
TaskStep(env) ==
    /\ pc = "loop"
    /\ idx <= Len(plan.tasks.v)
    /\ idx' = idx + 1
    /\ LET task == plan.tasks.v[idx]
           resolved == ResolvedArguments(task, results)
       IN IF ~DependenciesMet(task, completed_tasks, failed_tasks)
          THEN /\ failed_tasks' = Append(failed_tasks, task.id)
               /\ results' = Put(results, task.id, DependencyFailure)
               /\ last' = [idx |-> idx, kind |-> "dep_failed", id |-> task.id]
               /\ UNCHANGED <<pc, completed_tasks, execution_history, report,
                              recent_tool_calls, current_turn_tool_calls, events>>
          ELSE IF Has(task, "condition") /\ ~_evaluate_condition(task.condition.v, results)
          THEN /\ results' = Put(results, task.id, ConditionSkip)
               /\ completed_tasks' = Append(completed_tasks, task.id)
               /\ last' = [idx |-> idx, kind |-> "cond_skipped", id |-> task.id]
               /\ UNCHANGED <<pc, failed_tasks, execution_history, report,
                              recent_tool_calls, current_turn_tool_calls, events>>
          ELSE IF resolved.k = "exc"
          THEN /\ Abort(resolved.v)
               /\ last' = [idx |-> idx, kind |-> "exception", id |-> task.id]
               /\ UNCHANGED <<recent_tool_calls, current_turn_tool_calls, events>>
          ELSE Dispatch(task, resolved.v, env)
    /\ UNCHANGED <<plan, trust_manager, call, input, output>>

\* the end of the loop, by exhaustion or by break, and the return of the summary
ReturnReport ==
    /\ \/ pc = "loop" /\ idx > Len(plan.tasks.v)
       \/ pc = "stopped"
    /\ pc' = "done"
    /\ report' = PlanSummary(plan, results, completed_tasks, failed_tasks)
    /\ UNCHANGED <<plan, idx, results, completed_tasks, failed_tasks,
                   execution_history, recent_tool_calls, current_turn_tool_calls,
                   trust_manager, events, last, call, input, output>>

\* _evaluate_condition on its own: the conditions and results maps it is given
ConditionOptions(c) ==
    LET fields == {c} \cup {Put(c, "field", f) : f \in {"success", "count", "missing"}}
        operators == fields \cup {Put(d, "operator", o) : d \in fields,
                                     o \in {"equals", "not_equals", "contains"}}
    IN operators \cup {Put(d, "value", v) : d \in operators,
                          v \in {PyTrue, PyFalse, PyInt(0), PyInt(1), PyNone,
                                  PyStr(<<"x">>)}}

Conditions ==
    UNION {ConditionOptions([type |-> "task_result", task_id |-> id]) : id \in TaskIds}
    \cup {[type |-> "expression"], [type |-> "expression", task_id |-> "t1"],
          [type |-> "regex"]}

\* the entries the loop of execute_plan writes to results
ResultRecords ==
    {o.result : o \in {x \in Outcomes : x.kind = "return"}}
    \cup {DependencyFailure, ConditionSkip}

ResultMaps ==
    {EmptyDict} \cup {Put(EmptyDict, id, r) : id \in TaskIds, r \in ResultRecords}

InitCondition ==
    /\ pc = "condition"
    /\ plan = NoPlan
    /\ idx = 0
    /\ results = EmptyDict
    /\ completed_tasks = <<>>
    /\ failed_tasks = <<>>
    /\ execution_history = <<>>
    /\ report = NoReport
    /\ recent_tool_calls = <<>>
    /\ current_turn_tool_calls = <<>>
    /\ trust_manager = FALSE
    /\ events = <<>>
    /\ last = NoLast
    /\ call = NoCall
    /\ input \in {[condition |-> c, results |-> r] : c \in Conditions, r \in ResultMaps}
    /\ output = NoOutput

EvaluateCondition ==
    /\ pc = "condition"
    /\ output = NoOutput
    /\ output' = [met |-> _evaluate_condition(input.condition, input.results)]
    /\ UNCHANGED <<pc, plan, idx, results, completed_tasks, failed_tasks,
                   execution_history, report, recent_tool_calls,
                   current_turn_tool_calls, trust_manager, events, last, call, input>>

NextCondition == EvaluateCondition

SpecCondition == InitCondition /\ [][NextCondition]_vars

\* validate_plan on its own: the plans it is given
\* the most tasks of a plan given to validate_plan
MaxPlanTasks == 3

\* the id of the task declared at position i
IdOf(i) == <<"t1", "t2", "t3", "t4", "t5">>[i]

\* the tasks that may stand at position i: well formed ones that refer to
\* the task of any position, and ones with a defect
TaskOptions(i) ==
    LET plain == Task(IdOf(i), "grep", GrepArgs("x"))
    IN {plain,
        Task(IdOf(i), "nope", GrepArgs("x")),
        Task(IdOf(1), "grep", GrepArgs("x")),
        Task("", "grep", GrepArgs("x")),
        [tool_name |-> "grep", arguments |-> PyDict(GrepArgs("x"))],
        [id |-> IdOf(i), tool_name |-> "nope", arguments |-> PyNone]}
       \cup {Put(plain, "depends_on", PyList(<<IdOf(j)>>)) : j \in 1..MaxPlanTasks}
       \cup {Put(plain, "condition", Succeeded(IdOf(j))) : j \in {1, MaxPlanTasks}}

RECURSIVE TaskListsOfLen(_)
\* the task lists of n tasks, the task at position i taken from TaskOptions(i)
TaskListsOfLen(n) ==
    IF n = 0 THEN {<<>>}
    ELSE {Append(ts, t) : ts \in TaskListsOfLen(n - 1), t \in TaskOptions(n)}

\* task lists in which two checks of validate_plan find something
TwoDefectTaskLists ==
    LET plain(i) == Task(IdOf(i), "grep", GrepArgs("x"))
        regex(i) == Put(plain(i), "condition", PyDict([type |-> "regex"]))
        untyped(i) == Put(plain(i), "condition", PyDict([task_id |-> IdOf(1)]))
        untargeted(i) == Put(plain(i), "condition", PyDict([type |-> "task_result"]))
        needs(i, j) == Put(plain(i), "depends_on", PyList(<<IdOf(j)>>))
    IN {<<[id |-> IdOf(1), arguments |-> PyNone]>>,
        <<[id |-> IdOf(1), arguments |-> PyDict(GrepArgs("x"))],
          Task(IdOf(2), "nope", GrepArgs("x"))>>,
        <<Task(IdOf(1), "nope", GrepArgs("x")),
          [id |-> IdOf(2), arguments |-> PyDict(GrepArgs("x"))]>>,
        <<needs(1, 3), [id |-> IdOf(2), tool_name |-> "nope", arguments |-> PyNone]>>,
        <<regex(1), needs(2, 3)>>,
        <<untyped(1), needs(2, 3)>>,
        <<untargeted(1), regex(2)>>,
        <<needs(1, 2), Put(needs(2, 1), "condition", PyDict([type |-> "regex"]))>>,
        <<needs(1, 2), Put(needs(2, 1), "condition", Succeeded(IdOf(3)))>>,
        <<regex(1)>>, <<untyped(1)>>, <<untargeted(1)>>}

PlansToValidate ==
    {[name |-> "demo", description |-> "a plan", tasks |-> PyList(ts)] :
        ts \in UNION {TaskListsOfLen(n) : n \in 0..MaxPlanTasks}}
    \cup {[description |-> "a plan", tasks |-> PyList(<<>>)],
          [name |-> "demo", tasks |-> PyList(<<>>)],
          [name |-> "demo", description |-> "a plan"],
          [name |-> "demo", description |-> "a plan", tasks |-> PyNone],
          [tasks |-> PyList(<<>>)],
          [name |-> "demo"]}
    \cup {[name |-> "demo", description |-> "a plan", tasks |-> PyList(ts)] :
            ts \in TwoDefectTaskLists}
    \cup {[name |-> "demo", tasks |-> PyList(<<Task(IdOf(1), "grep", GrepArgs("x"))>>)],
          [name |-> "demo",
           tasks |-> PyList(<<[id |-> IdOf(1), tool_name |-> "grep"]>>)],
          [name |-> "demo", description |-> "a plan",
           tasks |-> PyList(<<[id |-> IdOf(1), tool_name |-> "grep"]>>)]}

InitValidate ==
    /\ pc = "validate"
    /\ plan = NoPlan
    /\ idx = 0
    /\ results = EmptyDict
    /\ completed_tasks = <<>>
    /\ failed_tasks = <<>>
    /\ execution_history = <<>>
    /\ report = NoReport
    /\ recent_tool_calls = <<>>
    /\ current_turn_tool_calls = <<>>
    /\ trust_manager = FALSE
    /\ events = <<>>
    /\ last = NoLast
    /\ call = NoCall
    /\ input \in {[plan |-> p] : p \in PlansToValidate}
    /\ output = NoOutput

Validate ==
    /\ pc = "validate"
    /\ output = NoOutput
    /\ output' = [error |-> validate_plan(input.plan)]
    /\ UNCHANGED <<pc, plan, idx, results, completed_tasks, failed_tasks,
                   execution_history, report, recent_tool_calls,
                   current_turn_tool_calls, trust_manager, events, last, call, input>>

NextValidate == Validate

SpecValidate == InitValidate /\ [][NextValidate]_vars

\* _process_template_vars on its own: the arguments, variables and results
\* it is given
Placeholder(name) == <<"$", "{", name, "}">>

\* values of an argument: strings with and without placeholders, a list, a
\* nested dict, a list holding a dict, scalars
ArgumentValues ==
    LET path == PyStr(Placeholder("d") \o <<"/f.txt">>)
    IN {path,
        PyStr(<<"x">> \o Placeholder("d") \o Placeholder("d")),
        PyStr(Placeholder("e")),
        PyStr(<<"plain">>),
        PyList(<<path, PyInt(7)>>),
        PyDict(<<Arg("inner", path)>>),
        PyList(<<PyDict(<<Arg("inner", path)>>)>>),
        PyInt(7),
        PyNone}

ArgumentDicts ==
    {<<Arg("path", v)>> : v \in ArgumentValues}
    \cup {<<Arg("path", v), Arg("mode", PyInt(7))>> : v \in ArgumentValues}

Var(name, var_def) == [key |-> <<name>>, val |-> var_def]

FieldPaths ==
    {<<"output">>, <<"a", ".", "b">>, <<"a", ".", "c">>, <<"output", ".", "b">>,
     <<"missing">>}

Defaults == {PyStr(<<"/tmp">>), PyStr(<<"/t", "\n", "mp">>)}

\* the definitions of the variable d that read the result of a task
TaskResultVars ==
    LET bare == {[type |-> "task_result", task_id |-> id] : id \in {"t1", "t9"}}
        fields == bare \cup {Put(v, "field", PyStr(f)) : v \in bare, f \in FieldPaths}
    IN fields \cup {Put(v, "default", dflt) : v \in fields, dflt \in Defaults}

StaticVars ==
    {[type |-> "static", value |-> PyStr(<<"S">>)],
     [type |-> "static", value |-> PyInt(7)],
     [type |-> "static"],
     [type |-> "static", default |-> PyStr(<<"/tmp">>)]}

TemplateVars ==
    {<<>>, Malformed, <<Var("d", [type |-> "env"])>>}
    \cup {<<Var("d", v)>> : v \in TaskResultVars \cup StaticVars}
    \cup {<<Var("d", [type |-> "static", value |-> PyStr(Placeholder("e"))]),
            Var("e", [type |-> "static", value |-> PyStr(<<"E">>)])>>,
          <<Var("e", [type |-> "static", value |-> PyStr(<<"E">>)]),
            Var("d", [type |-> "static", value |-> PyStr(Placeholder("e"))])>>}

\* results of earlier tasks: none, a result with nested fields, one whose
\* output ends with a newline, a failure
TemplateResults ==
    {EmptyDict,
     Put(EmptyDict, "t1", [success |-> PyTrue, output |-> PyStr(<<"/home/u">>),
                           a |-> PyDict([b |-> PyStr(<<"X">>)])]),
     Put(EmptyDict, "t1", [success |-> PyTrue, output |-> PyStr(<<"/home/u", "\n">>)]),
     Put(EmptyDict, "t1", [success |-> PyFalse, error |-> PyStr(<<"boom">>)])}

InitTemplate ==
    /\ pc = "template"
    /\ plan = NoPlan
    /\ idx = 0
    /\ results = EmptyDict
    /\ completed_tasks = <<>>
    /\ failed_tasks = <<>>
    /\ execution_history = <<>>
    /\ report = NoReport
    /\ recent_tool_calls = <<>>
    /\ current_turn_tool_calls = <<>>
    /\ trust_manager = FALSE
    /\ events = <<>>
    /\ last = NoLast
    /\ call = NoCall
    /\ input \in {[arguments |-> a, template_vars |-> tv, results |-> r] :
                    a \in ArgumentDicts, tv \in TemplateVars, r \in TemplateResults}
    /\ output = NoOutput

ProcessTemplateVars ==
    /\ pc = "template"
    /\ output = NoOutput
    /\ output' = [processed_args |->
                    _process_template_vars(input.arguments, input.template_vars,
                                           input.results)]
    /\ UNCHANGED <<pc, plan, idx, results, completed_tasks, failed_tasks,
                   execution_history, report, recent_tool_calls,
                   current_turn_tool_calls, trust_manager, events, last, call, input>>

NextTemplate == ProcessTemplateVars

SpecTemplate == InitTemplate /\ [][NextTemplate]_vars

\* execute_plan on plans that hand the result of one task to the next, and on
\* plans whose dependencies form a ring
\* the most tasks of a ring of dependencies
MaxRing == 3

\* the task after position i on a ring of n tasks
NextOnRing(i, n) == IF i = n THEN 1 ELSE i + 1

\* n tasks, the one at position i depending on the one declared after it and
\* the last one on the first
Ring(n, tool_name, arguments) ==
    [i \in 1..n |-> Put(Task(IdOf(i), tool_name, arguments), "depends_on",
                        PyList(<<IdOf(NextOnRing(i, n))>>))]

RingTaskLists ==
    UNION {{Ring(n, "grep", GrepArgs("x")), Ring(n, "bash", BashArgs),
            <<Task("t0", "grep", GrepArgs("x"))>> \o Ring(n, "grep", GrepArgs("x"))}
            : n \in 2..MaxRing}

\* arguments with the placeholder twice in one string, and a number
CopyArgs ==
    <<Arg("path", PyStr(Placeholder("d") \o <<"/f.txt">>)),
      Arg("content", PyStr(Placeholder("d") \o <<":">> \o Placeholder("d"))),
      Arg("mode", PyInt(7))>>

\* the definitions of the variable d that the second task of a plan may use
HandOverVars ==
    {FromTask("t1"), FromTask("t9"), Malformed,
     <<Var("d", [type |-> "task_result", task_id |-> "t1",
                 field |-> PyStr(<<"a", ".", "b">>), default |-> PyStr(<<"/tmp">>)])>>}

\* a task that runs whatever happens, then a task that writes to a path made
\* from the result of a task
HandOverTaskLists ==
    {<<Task("t1", "grep", GrepArgs("x")), t2>> :
        t2 \in {Put(Task("t2", "file_write", WriteArgs), "template_vars", tv)
                    : tv \in HandOverVars}
               \cup {Put(Put(Task("t2", "file_write", WriteArgs), "template_vars",
                             FromTask("t1")), "depends_on", PyList(<<"t1">>)),
                     Put(Task("t2", "file_write", CopyArgs), "template_vars",
                         FromTask("t1"))}}
    \cup {<<Task("t1", "grep", GrepArgs("x")),
            Put(Task("t2", "file_write", WriteArgs), "template_vars", Malformed),
            Task("t3", "grep", GrepArgs("z"))>>}

\* a task declared before the task it depends on
BackwardTaskLists ==
    {<<Put(Task("t1", "grep", GrepArgs("y")), "depends_on", PyList(<<"t2">>)),
       Task("t2", "grep", GrepArgs("x"))>>,
     <<Put(Task("t1", "grep", GrepArgs("y")), "depends_on", PyList(<<"t3">>)),
       Task("t2", "grep", GrepArgs("x")),
       Task("t3", "grep", GrepArgs("z"))>>}

PipelinePlans ==
    UNION {StopOptions([name |-> "demo", description |-> "a plan", tasks |-> PyList(ts)])
            : ts \in RingTaskLists \cup HandOverTaskLists \cup BackwardTaskLists}

\* what a capability may return or raise: an output with and without a final
\* newline, nested fields, a failure, an exception
PipelineOutcomes ==
    {[kind |-> "return", msg |-> <<>>,
      result |-> [success |-> PyTrue, output |-> PyStr(<<"/home/u">>)]],
     [kind |-> "return", msg |-> <<>>,
      result |-> [success |-> PyTrue, output |-> PyStr(<<"/home/u", "\n">>),
                  a |-> PyDict([b |-> PyStr(<<"X">>)])]],
     [kind |-> "return", msg |-> <<>>,
      result |-> [success |-> PyFalse, error |-> PyStr(<<"boom">>)]],
     [kind |-> "raise", msg |-> <<"boom">>, result |-> NoResult]}

PipelineEnvs ==
    {[trusted |-> e.trusted, prompt |-> e.prompt, outcome |-> o]
        : e \in LoopEnvs, o \in PipelineOutcomes}

NextPipeline ==
    \/ \E p \in PipelinePlans, answer \in BOOLEAN : ExecutePlan(p, answer)
    \/ \E env \in PipelineEnvs : TaskStep(env)
    \/ ReturnReport

SpecPipeline == Init /\ [][NextPipeline]_vars

-----------------------------------------------------------------------------
(* The Tool Manager on its own: calls of execute_tool over several turns *)

\* the calls of a long conversation: three keys and an unknown tool
HistoryCalls ==
    {[tool |-> "grep", arguments |-> GrepArgs("x"), pre_approved |-> PyFalse],
     [tool |-> "grep", arguments |-> GrepArgs("y"), pre_approved |-> PyFalse],
     [tool |-> "bash", arguments |-> BashArgs, pre_approved |-> PyFalse],
     [tool |-> "nope", arguments |-> GrepArgs("x"), pre_approved |-> PyFalse]}

\* the Permission Gate grants or refuses, the capability succeeds
HistoryEnvs ==
    {e \in Envs : /\ ~e.trusted
                  /\ e.prompt \in {"grant", "deny"}
                  /\ e.outcome.kind = "return"
                  /\ e.outcome.result.success = PyTrue
                  /\ e.outcome.result.count = PyInt(1)}

NextHistory ==
    \/ \E c \in HistoryCalls, env \in HistoryEnvs : AgentCall(c, env)
    \/ NewTurn

SpecHistory == Init /\ [][NextHistory]_vars

-----------------------------------------------------------------------------
(* The permission subject of one tool call, as the planner collects it for
   the batched request and as execute_tool derives it *)

SubjectKeys == {"command", "path", "file_path", "directory", "content"}

SubjectValues == {PyStr(<<"/a">>), PyStr(<<"/b">>), PyInt(7)}

\* argument maps of at most two entries, in every insertion order
SubjectArguments ==
    {<<>>}
    \cup {<<Arg(k, v)>> : k \in SubjectKeys, v \in SubjectValues}
    \cup {<<Arg(k[1], v[1]), Arg(k[2], v[2])>> :
            k \in {kk \in SubjectKeys \X SubjectKeys : kk[1] # kk[2]},
            v \in SubjectValues \X SubjectValues}

InitSubject ==
    /\ pc = "subject"
    /\ plan = NoPlan
    /\ idx = 0
    /\ results = EmptyDict
    /\ completed_tasks = <<>>
    /\ failed_tasks = <<>>
    /\ execution_history = <<>>
    /\ report = NoReport
    /\ recent_tool_calls = <<>>
    /\ current_turn_tool_calls = <<>>
    /\ trust_manager = TRUE
    /\ events = <<>>
    /\ last = NoLast
    /\ call = NoCall
    /\ input \in {[tool_name |-> t, arguments |-> a] :
                     t \in DOMAIN tools, a \in SubjectArguments}
    /\ output = NoOutput

\* the operations collected for a plan of the one task, and the subject
\* execute_tool derives for the same tool and arguments
DeriveSubjects ==
    /\ pc = "subject"
    /\ output = NoOutput
    /\ output' =
          [operations |->
              _collect_permission_operations(
                  [name |-> "demo", description |-> "a plan",
                   tasks |-> PyList(<<Task("t1", input.tool_name, input.arguments)>>)]),
           permission_path |-> _get_permission_path(input.tool_name, input.arguments)]
    /\ UNCHANGED <<pc, plan, idx, results, completed_tasks, failed_tasks,
                   execution_history, report, recent_tool_calls,
                   current_turn_tool_calls, trust_manager, events, last, call, input>>

NextSubject == DeriveSubjects

SpecSubject == InitSubject /\ [][NextSubject]_vars

Next ==
    \/ \E c \in DirectCalls, env \in Envs : DirectCall(c, env)
    \/ NewTurn
    \/ /\ pc = "idle"
       /\ \E p \in Plans, answer \in BOOLEAN : WithinBudget(p) /\ ExecutePlan(p, answer)
    \/ \E p \in Plans : ValidateOnly(p)
    \/ \E env \in LoopEnvs : TaskStep(env)
    \/ ReturnReport

Spec == Init /\ [][Next]_vars

-----------------------------------------------------------------------------
(* Properties *)

\* a step of the loop of execute_plan that evaluates the task at index idx
LoopStep == pc = "loop" /\ idx' = idx + 1

CurrentTask == plan.tasks.v[idx]

\* every dependency of the task is completed and none of them has failed
DepsSatisfied(task) ==
    \A d \in (IF Has(task, "depends_on")
              THEN {task.depends_on.v[n] : n \in 1..Len(task.depends_on.v)}
              ELSE {}) :
        InSeq(d, completed_tasks) /\ ~InSeq(d, failed_tasks)

\* the step called execute_tool or reached a collaborator
ToolTouched ==
    \/ last'.kind = "dispatched"
    \/ events' # events
    \/ execution_history' # execution_history
    \/ recent_tool_calls' # recent_tool_calls
    \/ current_turn_tool_calls' # current_turn_tool_calls

\* C1: in the loop of execute_plan a task reaches execute_tool only if, when
\* it is evaluated, each of its depends_on ids is in completed_tasks and none
\* is in failed_tasks; otherwise its id is appended to failed_tasks and
\* results records success false, error "Dependencies not met", skipped true,
\* with no call to the tool manager, the capability or the Permission Gate.
C1_DependencyGate ==
    [][LoopStep /\ ~DepsSatisfied(CurrentTask) =>
          /\ ~ToolTouched
          /\ failed_tasks' = Append(failed_tasks, CurrentTask.id)
          /\ completed_tasks' = completed_tasks
          /\ results' = Put(results, CurrentTask.id,
                            [success |-> PyFalse, skipped |-> PyTrue,
                             error |-> PyStr(<<"Dependencies not met">>)])]_vars

\* a task was refused for its dependencies after another task had been run
C1_Witness ==
    /\ pc = "loop"
    /\ last.kind = "dep_failed"
    /\ InSeq(last.id, failed_tasks)
    /\ Len(execution_history) > 0
    /\ results[last.id].error = PyStr(<<"Dependencies not met">>)

\* the plan asks to go on after a failure: stop_on_failure is false or absent
GoesOnAfterFailure(p) == ~Has(p, "stop_on_failure") \/ p.stop_on_failure = PyFalse

Executions == {i \in 1..Len(events) : events[i].op = "execute"}

\* the run of a valid plan [A, B], B depending on A, is over and A, the only
\* task handed to execute_tool so far as the first, got a failure back
C2_Case ==
    /\ pc = "done"
    /\ validate_plan(plan) = NoError
    /\ Len(plan.tasks.v) = 2
    /\ Has(plan.tasks.v[2], "depends_on")
    /\ InSeq(plan.tasks.v[1].id, plan.tasks.v[2].depends_on.v)
    /\ Len(execution_history) >= 1
    /\ execution_history[1].task_id = plan.tasks.v[1].id
    /\ ~PyTruthy(execution_history[1].success)

C2_Outcome ==
    /\ plan.tasks.v[2].id \in DOMAIN report.results
    /\ report.results[plan.tasks.v[2].id] =
          [success |-> PyFalse, skipped |-> PyTrue,
           error |-> PyStr(<<"Dependencies not met">>)]
    /\ Len(execution_history) = 1
    /\ Cardinality(Executions) <= 1

\* C2 as stated: for a valid plan [A, B] where B depends on A and A's tool
\* returns a failure, whatever stop_on_failure is, the report has results[B]
\* = {success: false, skipped: true, error: "Dependencies not met"} and B's
\* tool is never invoked.
C2_Original == C2_Case => C2_Outcome

\* C2 amended: the same for plans whose stop_on_failure is false or absent
\* (with stop_on_failure true the loop ends at A and B is never recorded).
C2_DependentOfFailedTask == C2_Case /\ GoesOnAfterFailure(plan) => C2_Outcome

C2_Witness ==
    /\ C2_Case
    /\ GoesOnAfterFailure(plan)
    /\ report.failed_tasks = <<plan.tasks.v[1].id, plan.tasks.v[2].id>>
    /\ report.results[plan.tasks.v[2].id].skipped = PyTrue

\* C3: with stop_on_failure true, once a task has been appended to
\* failed_tasks no later task of the plan gets an entry in results and no
\* later tool is called.
C3_StopAfterFirstFailure ==
    [][pc = "loop" /\ StopOnFailure(plan) /\ Len(failed_tasks) > 0 =>
          /\ results' = results
          /\ execution_history' = execution_history
          /\ events' = events]_vars

\* the report is the one of the except clause of execute_plan
EngineException ==
    Len(report.error) > 0 /\ report.error[1] = "Error executing plan: "

\* the plan has operations that need permission and the batched request for
\* them was not granted
BatchDenied ==
    /\ Len(_collect_permission_operations(plan)) > 0
    /\ \/ ~trust_manager
       \/ \E i \in 1..Len(events) :
             /\ events[i].op = "prompt_for_parallel_operations"
             /\ events[i].reply = "false"

SkippedForDependencies ==
    [success |-> PyFalse, skipped |-> PyTrue, error |-> PyStr(<<"Dependencies not met">>)]

SkippedForCondition ==
    [success |-> PyTrue, skipped |-> PyTrue, reason |-> PyStr(<<"Condition not met">>)]

\* the run of a valid plan that goes on after a failure is over, without an
\* engine exception
C4_Case ==
    /\ pc = "done"
    /\ validate_plan(plan) = NoError
    /\ GoesOnAfterFailure(plan)
    /\ ~EngineException

\* every task was evaluated by the loop; each declared id has an entry in the
\* results of the report, and the entry is a dependency failure, a condition
\* skip, or what execute_tool returned for a task of that id
C4_Outcome ==
    /\ idx = Len(plan.tasks.v) + 1
    /\ DOMAIN report.results = DeclaredIds(plan.tasks.v)
    /\ \A id \in DeclaredIds(plan.tasks.v) :
          \/ report.results[id] = SkippedForDependencies
          \/ report.results[id] = SkippedForCondition
          \/ \E h \in 1..Len(execution_history) : execution_history[h].task_id = id

\* C4 as stated: for every valid plan with stop_on_failure false or absent
\* whose run raises no engine exception, every declared task is dispatched,
\* condition-skipped or dependency-failed and the keys of results in the
\* report are exactly the declared task ids.
C4_Original == C4_Case => C4_Outcome

\* C4 amended: the same for the runs whose batched permission request, if
\* there was one, was granted (a denied request returns empty results before
\* any task is evaluated).
C4_EveryTaskAccounted == C4_Case /\ ~BatchDenied => C4_Outcome

\* a two-task run where one task was dispatched and failed and the other was
\* then refused for its dependencies
C4_Witness ==
    /\ C4_Case
    /\ ~BatchDenied
    /\ Len(plan.tasks.v) = 2
    /\ Len(execution_history) = 1
    /\ Len(report.failed_tasks) = 2
    /\ Cardinality(DOMAIN report.results) = 2

\* C5: in every report of execute_plan for a plan that passed validation no
\* task id is in both completed_tasks and failed_tasks.
C5_CompletedFailedDisjoint ==
    pc = "done" /\ validate_plan(plan) = NoError =>
        \A id \in DeclaredIds(plan.tasks.v) :
            ~(InSeq(id, report.completed_tasks) /\ InSeq(id, report.failed_tasks))

\* the loop of execute_plan ends: the tasks are exhausted or a failure stopped it
LoopEnds ==
    /\ \/ pc = "loop" /\ idx > Len(plan.tasks.v)
       \/ pc = "stopped"
    /\ pc' = "done"

\* C6: when the loop of execute_plan ends, by exhausting the tasks or by
\* stop_on_failure, success of the report is true iff failed_tasks is empty,
\* and when it is not empty the error is "Failed tasks: " followed by the ids
\* of failed_tasks, in order, separated by ", ".
C6_SummaryOfFailures ==
    [][LoopEnds =>
          /\ report'.failed_tasks = failed_tasks
          /\ report'.success = (failed_tasks = <<>>)
          /\ failed_tasks # <<>> =>
                /\ Len(report'.error) = 2 * Len(failed_tasks)
                /\ report'.error[1] = "Failed tasks: "
                /\ \A k \in 1..Len(failed_tasks) :
                      /\ report'.error[2 * k] = failed_tasks[k]
                      /\ k > 1 => report'.error[2 * k - 1] = ", "]_vars

\* a summary that names two failed tasks although another use of it succeeded
C6_Witness ==
    /\ pc = "done"
    /\ ~EngineException
    /\ Len(report.failed_tasks) = 2
    /\ report.error = <<"Failed tasks: ", report.failed_tasks[1], ", ",
                        report.failed_tasks[2]>>
    /\ ~report.success

\* C7: when the dependencies of a task are met and its condition evaluates
\* false, results records {success: true, skipped: true, reason: "Condition
\* not met"} for it, its id is appended to completed_tasks and not to
\* failed_tasks, and its tool is not invoked.
C7_ConditionSkip ==
    [][/\ LoopStep
       /\ DepsSatisfied(CurrentTask)
       /\ Has(CurrentTask, "condition")
       /\ ~_evaluate_condition(CurrentTask.condition.v, results)
       =>
          /\ results' = Put(results, CurrentTask.id, SkippedForCondition)
          /\ completed_tasks' = Append(completed_tasks, CurrentTask.id)
          /\ failed_tasks' = failed_tasks
          /\ ~ToolTouched]_vars

\* a task was skipped because the count of an earlier, dispatched task is 0
C7_Witness ==
    /\ last.kind = "cond_skipped"
    /\ Len(execution_history) = 1
    /\ results[execution_history[1].task_id].count = PyInt(0)
    /\ results[last.id] = SkippedForCondition
    /\ InSeq(last.id, completed_tasks)
    /\ ~InSeq(last.id, failed_tasks)

\* the reference: an expression is met; a task_result whose task has no entry
\* in results is not met; otherwise result[field] (field "success" when
\* absent, a null value when the result has no such field) is compared with
\* value (true when absent), for a difference when the operator is
\* not_equals and for equality with any other operator or none
ConditionReference(condition, res) ==
    CASE condition.type = "expression" -> TRUE
      [] condition.type = "task_result" ->
            /\ condition.task_id \in DOMAIN res
            /\ LET result == res[condition.task_id]
                   field == IF "field" \in DOMAIN condition THEN condition.field
                            ELSE "success"
                   value == IF "value" \in DOMAIN condition THEN condition.value
                            ELSE PyTrue
                   actual == IF field \in DOMAIN result THEN result[field] ELSE PyNone
                   differs == "operator" \in DOMAIN condition
                              /\ condition.operator = "not_equals"
               IN differs <=> ~PyEq(actual, value)

\* C8: for every condition of type expression or task_result and every
\* results map, _evaluate_condition returns what the reference returns; in
\* particular not_equals 0 against a count of 0 is not met.
C8_ConditionMatchesReference ==
    output # NoOutput /\ input.condition.type \in {"expression", "task_result"} =>
        output.met = ConditionReference(input.condition, input.results)

\* not_equals 0 was evaluated against a result whose count is 0: not met
C8_Witness ==
    /\ output # NoOutput
    /\ input.condition = [type |-> "task_result", task_id |-> "t1", field |-> "count",
                          operator |-> "not_equals", value |-> PyInt(0)]
    /\ "t1" \in DOMAIN input.results
    /\ "count" \in DOMAIN input.results["t1"]
    /\ input.results["t1"].count = PyInt(0)
    /\ ~output.met

\* C9: when the batched permission request of execute_plan is denied, the
\* report returned has success false, error "Permission denied for task plan
\* operations" and empty results, completed_tasks and failed_tasks; no tool of
\* a task has been invoked and the two redundancy caches are as they were.
C9_BatchDenialAborts ==
    [][pc = "idle" /\ pc' \in {"loop", "stopped", "done"}
       /\ validate_plan(plan') = NoError /\ BatchDenied' =>
          /\ pc' = "done"
          /\ report'.success = FALSE
          /\ report'.error = <<"Permission denied for task plan operations">>
          /\ report'.results = EmptyDict
          /\ report'.completed_tasks = <<>>
          /\ report'.failed_tasks = <<>>
          /\ \A i \in 1..Len(events') : events'[i].op # "execute"
          /\ execution_history' = <<>>
          /\ recent_tool_calls' = recent_tool_calls
          /\ current_turn_tool_calls' = current_turn_tool_calls]_vars

\* the Permission Gate refused the batch of a plan submitted after a call of
\* the agent had filled the caches
C9_Witness ==
    /\ pc = "done"
    /\ trust_manager
    /\ validate_plan(plan) = NoError
    /\ BatchDenied
    /\ Len(events) = 1
    /\ Len(recent_tool_calls) = 1
    /\ Len(current_turn_tool_calls) = 1
    /\ report.error = <<"Permission denied for task plan operations">>

\* C10: from the start of the task loop of execute_plan on, is_trusted and
\* prompt_for_permission of the Permission Gate are never called for a task:
\* every call of execute_tool by the planner is pre-approved.
C10_NoPromptInsidePlan ==
    pc \in {"loop", "stopped", "done"} =>
        \A i \in 1..Len(events) :
            events[i].op \notin {"is_trusted", "prompt_for_permission"}

\* a task whose tool requires confirmation was run by the loop after the
\* batch was granted
C10_Witness ==
    /\ pc \in {"loop", "stopped", "done"}
    /\ trust_manager
    /\ Len(events) >= 2
    /\ events[1].op = "prompt_for_parallel_operations"
    /\ events[1].reply = "true"
    /\ \E i \in 2..Len(events) :
          /\ events[i].op = "execute"
          /\ tools[events[i].tool].requires_confirmation

\* the positions in events of the batched requests to the Permission Gate
BatchRequests == {i \in 1..Len(events) : events[i].op = "prompt_for_parallel_operations"}

RECURSIVE ConfirmedTools(_)
\* the tool names of the tasks whose tool requires confirmation, in the order
\* the tasks are declared
ConfirmedTools(tasks) ==
    IF tasks = <<>> THEN <<>>
    ELSE (IF tools[Head(tasks).tool_name].requires_confirmation
          THEN <<Head(tasks).tool_name>> ELSE <<>>) \o ConfirmedTools(Tail(tasks))

\* execute_plan is past its permission pre-check for a valid plan
C11_Case ==
    /\ pc \in {"loop", "stopped", "done"}
    /\ validate_plan(plan) = NoError

\* one request when a task needs confirmation and none otherwise; the request
\* comes before every call of a capability and has one entry per such task,
\* in the order of declaration
C11_Outcome ==
    LET wanted == ConfirmedTools(plan.tasks.v)
    IN /\ Cardinality(BatchRequests) = IF wanted = <<>> THEN 0 ELSE 1
       /\ wanted # <<>> =>
             /\ events[1].op = "prompt_for_parallel_operations"
             /\ Len(events[1].arg.v) = Len(wanted)
             /\ \A n \in 1..Len(wanted) : events[1].arg.v[n].tool = wanted[n]

C12_ValidateOnlyTouchesNothing ==
    [][pc = "idle" /\ pc' = "validated" =>
          /\ events' = events
          /\ recent_tool_calls' = recent_tool_calls
          /\ current_turn_tool_calls' = current_turn_tool_calls
          /\ execution_history' = execution_history
          /\ validate_plan(plan') = NoError =>
                /\ output'.success
                /\ output'.task_count = Len(plan'.tasks.v)]_vars

\* a valid plan whose task needs confirmation was validated after a call of
\* the agent had filled the caches
C12_Witness ==
    /\ pc = "validated"
    /\ trust_manager
    /\ Len(recent_tool_calls) = 1
    /\ Len(current_turn_tool_calls) = 1
    /\ output.success
    /\ output.task_count = 1
    /\ tools[plan.tasks.v[1].tool_name].requires_confirmation

\* the depends_on ids of the plan that no task declares, for a plan whose
\* earlier checks (fields of the plan, task list, tool names) find nothing
UndeclaredDependencies(p) ==
    IF /\ Has(p, "name") /\ Has(p, "description") /\ Has(p, "tasks")
       /\ \A i \in 1..Len(p.tasks.v) : p.tasks.v[i].tool_name \in DOMAIN tools
    THEN {d \in UNION {IF Has(p.tasks.v[i], "depends_on")
                       THEN {p.tasks.v[i].depends_on.v[n] :
                                n \in 1..Len(p.tasks.v[i].depends_on.v)}
                       ELSE {} : i \in 1..Len(p.tasks.v)} :
            d \notin DeclaredIds(p.tasks.v)}
    ELSE {}

\* C13: when validate_plan rejects the plan, execute_plan returns success
\* false with empty results, completed_tasks and failed_tasks, having called
\* no tool and made no permission request; when the plan is rejected for a
\* depends_on entry that names an undeclared task, the error names that id.
C13_RejectedPlanNotRun ==
    /\ pc = "done" /\ validate_plan(plan) # NoError =>
          /\ report.success = FALSE
          /\ report.results = EmptyDict
          /\ report.completed_tasks = <<>>
          /\ report.failed_tasks = <<>>
          /\ events = <<>>
          /\ execution_history = <<>>
    /\ pc = "done" /\ UndeclaredDependencies(plan) # {} =>
          /\ report.success = FALSE
          /\ \E n \in 1..Len(report.error) : report.error[n] \in UndeclaredDependencies(plan)

\* the plan whose only task depends on "missing" was refused
C13_Witness ==
    /\ pc = "done"
    /\ UndeclaredDependencies(plan) = {"missing"}
    /\ report.error = <<"Invalid plan: ", "Task '", "t1", "' depends on unknown task '",
                        "missing", "'">>
    /\ events = <<>>

\* validate_plan accepted the plan it was given
Accepted == output # NoOutput /\ output.error = NoError

\* the ids named by the depends_on of the task
DependsOn(task) ==
    IF "depends_on" \in DOMAIN task
    THEN {task.depends_on.v[n] : n \in 1..Len(task.depends_on.v)}
    ELSE {}

\* C14: every plan validate_plan accepts has a task list that is not empty,
\* the tool_name of every task in the registry, every depends_on id among the
\* declared task ids and the task_id of every task_result condition among
\* the declared task ids.
C14_AcceptedPlanWellFormed ==
    Accepted =>
        LET tasks == input.plan.tasks.v
        IN /\ Len(tasks) > 0
           /\ \A i \in 1..Len(tasks) : "id" \in DOMAIN tasks[i]
           /\ \A i \in 1..Len(tasks) :
                 /\ tasks[i].tool_name \in DOMAIN tools
                 /\ DependsOn(tasks[i]) \subseteq {tasks[j].id : j \in 1..Len(tasks)}
                 /\ ("condition" \in DOMAIN tasks[i]
                     /\ tasks[i].condition.v.type = "task_result")
                    => tasks[i].condition.v.task_id \in {tasks[j].id : j \in 1..Len(tasks)}

\* a plan of three tasks with a dependency and a condition on declared tasks
\* was accepted
C14_Witness ==
    /\ Accepted
    /\ Len(input.plan.tasks.v) = 3
    /\ DependsOn(input.plan.tasks.v[2]) = {"t1"}
    /\ "condition" \in DOMAIN input.plan.tasks.v[3]
    /\ input.plan.tasks.v[3].condition.v.task_id = "t1"

\* C15: every plan validate_plan accepts has task ids that are not empty and
\* differ from one another.
C15_AcceptedIdsDistinct ==
    Accepted =>
        LET tasks == input.plan.tasks.v
        IN \A i \in 1..Len(tasks) :
              /\ tasks[i].id # ""
              /\ \A j \in 1..Len(tasks) : i # j => tasks[i].id # tasks[j].id

\* the agent's own call of execute_tool has ended; call and events describe it
DirectDone == pc = "idle" /\ call.kind # "none"

KnownTool == call.tool \in DOMAIN tools

\* the key of the call was in the list of the turn when the call was made
InTurnBefore ==
    \E i \in 1..Len(call.before.current) :
        CallEq(call.before.current[i], CallKey(call.tool, call.arguments))

\* the capability was invoked by the call
Invoked == \E i \in 1..Len(events) : events[i].op = "execute"

GateConsulted ==
    \E i \in 1..Len(events) : events[i].op \in {"is_trusted", "prompt_for_permission"}

\* the permission check of the call applies and did not let it pass
PermissionRefused ==
    /\ tools[call.tool].requires_confirmation
    /\ ~PyTruthy(call.pre_approved)
    /\ ~\E i \in 1..Len(events) :
           /\ events[i].op \in {"is_trusted", "prompt_for_permission"}
           /\ events[i].reply = "true"

RedundancyError ==
    /\ call.kind = "return"
    /\ call.result.success = PyFalse
    /\ Len(call.result.error.v) >= 3
    /\ SubSeq(call.result.error.v, 1, 3) =
          <<"Identical ", call.tool, " call was already executed in this conversation turn.">>

\* a call whose key is in the list of the turn gets the redundancy error and
\* the capability is not invoked
C16_SecondCall == InTurnBefore => RedundancyError /\ ~Invoked

\* C16 as stated: for any known tool and arguments the first call of
\* execute_tool in a turn dispatches to the capability, a second call with the
\* same tool and arguments in the turn returns the "Identical <tool> call was
\* already executed in this conversation turn" failure without invoking the
\* capability, and after current_turn_tool_calls is cleared the same call
\* dispatches again.
C16_Original ==
    DirectDone /\ KnownTool => C16_SecondCall /\ (~InTurnBefore => Invoked)

\* C16 amended: the first call and the call after the clearing dispatch when
\* the permission check, if it applies to the call, lets it pass.
C16_RedundancyWithinTurn ==
    DirectDone /\ KnownTool =>
        C16_SecondCall /\ (~InTurnBefore /\ ~PermissionRefused => Invoked)

\* a call recorded in an earlier turn was made again after the list of the
\* turn had been cleared, and reached the capability
C16_Witness ==
    /\ DirectDone
    /\ call.before.recent = <<CallKey(call.tool, call.arguments)>>
    /\ call.before.current = <<>>
    /\ Invoked
    /\ call.after.recent = <<CallKey(call.tool, call.arguments),
                             CallKey(call.tool, call.arguments)>>

\* C17: execute_tool with a tool name that is not in the registry returns
\* {success: false, error: "Unknown tool: <name>"}, invokes no capability,
\* does not consult the Permission Gate and leaves recent_tool_calls and
\* current_turn_tool_calls as they were.
C17_UnknownTool ==
    DirectDone /\ ~KnownTool =>
        /\ call.kind = "return"
        /\ call.result = [success |-> PyFalse,
                          error |-> PyStr(<<"Unknown tool: ", call.tool>>)]
        /\ events = <<>>
        /\ call.after = call.before

\* an unknown tool was called when the two lists were not empty
C17_Witness ==
    /\ DirectDone
    /\ call.tool = "nope"
    /\ call.before.recent # <<>>
    /\ call.before.current # <<>>
    /\ recent_tool_calls = call.before.recent
    /\ current_turn_tool_calls = call.before.current

\* the capability was invoked by the step and raised
CapabilityRaised ==
    /\ Len(events') = Len(events) + 1
    /\ events'[Len(events')].op = "execute"
    /\ events'[Len(events')].reply = "raise"

\* the result execute_tool makes of an exception of the capability
ErrorExecuting(tool_name) ==
    [success |-> PyFalse, error |-> PyStr(<<"Error executing ", tool_name, ": ", "boom">>)]

\* C18: when execute of a capability raises, execute_tool returns {success:
\* false, error: "Error executing <tool>: <message>"} and nothing propagates;
\* inside a plan the task is recorded with that result, its id is appended to
\* failed_tasks and the loop goes on unless stop_on_failure is set.
C18_CapabilityExceptionContained ==
    /\ [](DirectDone /\ (\E i \in 1..Len(events) :
                            events[i].op = "execute" /\ events[i].reply = "raise")
          => call.kind = "return" /\ call.result = ErrorExecuting(call.tool))
    /\ [][LoopStep /\ CapabilityRaised =>
             /\ results' = Put(results, CurrentTask.id, ErrorExecuting(CurrentTask.tool_name))
             /\ failed_tasks' = Append(failed_tasks, CurrentTask.id)
             /\ completed_tasks' = completed_tasks
             /\ report' = report
             /\ pc' = IF Has(plan, "stop_on_failure") /\ PyTruthy(plan.stop_on_failure)
                      THEN "stopped" ELSE "loop"]_vars

\* the tool of the first task raised, the task was recorded as failed and
\* the loop went on to the second task
C18_Witness ==
    /\ pc = "loop"
    /\ last.kind = "dispatched"
    /\ last.idx = 1
    /\ Len(plan.tasks.v) = 2
    /\ results[last.id] = ErrorExecuting("grep")
    /\ failed_tasks = <<last.id>>
    /\ Len(events) > 0
    /\ events[Len(events)].reply = "raise"

\* C19: when the Permission Gate denies a call that is not pre-approved to a
\* tool that requires confirmation, execute_tool raises the permission-denied
\* condition to its caller instead of returning a failure result, and the
\* capability is not invoked.
C19_DenialPropagates ==
    DirectDone /\ (\E i \in 1..Len(events) :
                      /\ events[i].op = "prompt_for_permission"
                      /\ events[i].reply \in {"false", "raise"})
    => /\ call.kind = "raise"
       /\ call.exc = "PermissionDeniedError"
       /\ ~Invoked

\* the permission check applies to the call
Gated == tools[call.tool].requires_confirmation /\ ~PyTruthy(call.pre_approved)

EventsOf(op) == {i \in 1..Len(events) : events[i].op = op}

\* what the claim says of the Permission Gate and the capability
C20_Outcome ==
    /\ ~Gated => ~GateConsulted
    /\ Gated =>
          /\ Cardinality(EventsOf("is_trusted")) = 1
          /\ EventsOf("prompt_for_permission") # {}
                <=> \E i \in EventsOf("is_trusted") : events[i].reply = "false"
          /\ Cardinality(EventsOf("prompt_for_permission")) <= 1
          /\ Invoked => \E i \in 1..Len(events) :
                           /\ events[i].op \in {"is_trusted", "prompt_for_permission"}
                           /\ events[i].reply = "true"

TemplateDone == pc = "template" /\ output # NoOutput

\* the template variables declare the one variable d, read from a task result
\* through a field path, with a default
OneFieldVar ==
    /\ Len(input.template_vars) = 1
    /\ input.template_vars[1].key = <<"d">>
    /\ Has(input.template_vars[1].val, "type")
    /\ input.template_vars[1].val.type = "task_result"
    /\ Has(input.template_vars[1].val, "task_id")
    /\ Has(input.template_vars[1].val, "field")
    /\ Has(input.template_vars[1].val, "default")

NoNewlines(s) == SelectSeq(s, LAMBDA c : c # "\n")

\* the keys named by a dotted field path
Segments(field) == SelectSeq(field, LAMBDA c : c # ".")

RECURSIVE Descend(_, _)
\* one mapping key per segment: the value reached, if every segment is there
Descend(value, path) ==
    IF path = <<>> THEN [found |-> TRUE, value |-> value]
    ELSE IF value.k = "dict" /\ Head(path) \in DOMAIN value.v
    THEN Descend(value.v[Head(path)], Tail(path))
    ELSE [found |-> FALSE, value |-> PyNone]

\* what the field path of var_def reaches in the results res
ReachedIn(var_def, res) ==
    IF var_def.task_id \in DOMAIN res
    THEN Descend(PyDict(res[var_def.task_id]), Segments(var_def.field.v))
    ELSE [found |-> FALSE, value |-> PyNone]

\* what the field path of the variable d reaches in the results given
Reached == ReachedIn(input.template_vars[1].val, input.results)

\* every string argument is the input string with ${d} replaced by text
StringsReplacedBy(text) ==
    /\ output.processed_args.k = "dict"
    /\ \A i \in 1..Len(input.arguments) :
          input.arguments[i].val.k = "str" =>
             output.processed_args.v[i].val =
                PyStr(Replace(input.arguments[i].val.v, Placeholder("d"), text))

C22_Case == TemplateDone /\ OneFieldVar

\* C22 as stated: the fallback is always the stringified default
C22_Original ==
    C22_Case =>
        StringsReplacedBy(IF Reached.found THEN NoNewlines(Str(Reached.value))
                          ELSE Str(input.template_vars[1].val.default))

\* C22: a dotted field path descends one mapping key per segment into the
\* result of the referenced task; when a segment is missing or the value met is
\* not a mapping the placeholder is replaced by the stringified default with
\* its newlines removed, and when the referenced task has no entry in results
\* by the stringified default as it is
C22_FieldPathOrDefault ==
    C22_Case =>
        StringsReplacedBy(
            IF Reached.found THEN NoNewlines(Str(Reached.value))
            ELSE IF input.template_vars[1].val.task_id \in DOMAIN input.results
            THEN NoNewlines(Str(input.template_vars[1].val.default))
            ELSE Str(input.template_vars[1].val.default))

C22_Witness ==
    /\ C22_Case
    /\ input.template_vars[1].val.field = PyStr(<<"a", ".", "b">>)
    /\ Reached.found
    /\ input.arguments[1].val = PyStr(Placeholder("d") \o <<"/f.txt">>)
    /\ output.processed_args.v[1].val = PyStr(<<"X", "/f.txt">>)

\* the task the loop of execute_plan evaluated last
LastTask == plan.tasks.v[last.idx]

\* the last task evaluated got as far as the call of execute_tool
LastReachedTool ==
    /\ pc \in {"loop", "stopped", "done"}
    /\ last.kind \in {"dispatched", "exception"}
    /\ Len(events) > 0
    /\ events[Len(events)].op = "execute"

\* the last task evaluated declares the one variable d, read through a field
\* path that the result of another, already evaluated task contains
ReadsFieldOfResult ==
    /\ Has(LastTask, "template_vars")
    /\ Len(LastTask.template_vars) = 1
    /\ LastTask.template_vars[1].key = <<"d">>
    /\ Has(LastTask.template_vars[1].val, "type")
    /\ LastTask.template_vars[1].val.type = "task_result"
    /\ Has(LastTask.template_vars[1].val, "task_id")
    /\ Has(LastTask.template_vars[1].val, "field")
    /\ LastTask.template_vars[1].val.task_id # LastTask.id
    /\ ReachedIn(LastTask.template_vars[1].val, results).found

\* the arguments of the last task with ${d} replaced by text in every string
ArgumentsWith(text) ==
    [i \in 1..Len(TaskArguments(LastTask)) |->
        [key |-> TaskArguments(LastTask)[i].key,
         val |-> IF TaskArguments(LastTask)[i].val.k = "str"
                 THEN PyStr(Replace(TaskArguments(LastTask)[i].val.v,
                                    Placeholder("d"), text))
                 ELSE TaskArguments(LastTask)[i].val]]

\* the capability of the last task was called with arguments
InvokedWith(arguments) ==
    /\ events[Len(events)].tool = LastTask.tool_name
    /\ events[Len(events)].arg = [k |-> "args", v |-> arguments]

C21_Case == LastReachedTool /\ ReadsFieldOfResult

\* C21 as stated: the placeholder is replaced by exactly the stringified
\* field value
C21_Original ==
    C21_Case =>
        InvokedWith(ArgumentsWith(
            Str(ReachedIn(LastTask.template_vars[1].val, results).value)))

\* C21: for a task with a task_result variable whose referenced task has a
\* result containing the field, every occurrence of the placeholder in a
\* string argument is replaced by the stringified field value with its
\* newlines removed, the rest of the string and the other arguments are left
\* as they are, and the tool is called with these arguments
C21_ResolvedArgumentsDispatched ==
    C21_Case =>
        InvokedWith(ArgumentsWith(
            NoNewlines(Str(ReachedIn(LastTask.template_vars[1].val, results).value))))

\* t1 returned output "/home/u" and t2 was called with path "/home/u/f.txt"
C21_Witness ==
    /\ C21_Case
    /\ results["t1"].output = PyStr(<<"/home/u">>)
    /\ TaskArguments(LastTask)[1] = Arg("path", PyStr(Placeholder("d") \o <<"/f.txt">>))
    /\ events[Len(events)].arg.v[1] = Arg("path", PyStr(<<"/home/u", "/f.txt">>))
    /\ Len(events[Len(events)].arg.v) = 3
    /\ events[Len(events)].arg.v[2] =
          Arg("content", PyStr(<<"/home/u", ":", "/home/u">>))

\* C23: with no template variable declared, _process_template_vars returns
\* arguments equal to the ones it was given (strings, nested mappings,
\* sequences and other scalars alike), whatever results holds
C23_NoVariablesIdentity ==
    TemplateDone /\ input.template_vars = <<>> =>
        output.processed_args = PyDict(input.arguments)

C23_Witness ==
    /\ TemplateDone
    /\ input.template_vars = <<>>
    /\ "t1" \in DOMAIN input.results
    /\ Len(input.arguments) = 2
    /\ input.arguments[1].val.k = "list"
    /\ output.processed_args = PyDict(input.arguments)

\* the variables d and e are both declared, static, and the value of d is the
\* placeholder of e
ChainedVars ==
    /\ Len(input.template_vars) = 2
    /\ \E i, j \in 1..2 :
          /\ input.template_vars[i] =
                Var("d", [type |-> "static", value |-> PyStr(Placeholder("e"))])
          /\ input.template_vars[j] =
                Var("e", [type |-> "static", value |-> PyStr(<<"E">>)])

\* d is declared before e
DeclaredFirst == input.template_vars[1].key = <<"d">>

\* a string argument of the input that holds ${d}
HoldsD(i) ==
    /\ input.arguments[i].val.k = "str"
    /\ Contains(input.arguments[i].val.v, Placeholder("d"))

C24_Case == TemplateDone /\ ChainedVars /\ output.processed_args.k = "dict"

\* C24 as stated: the placeholder brought in by the value of d stays
\* unexpanded whatever the order of the declarations
C24_Original ==
    C24_Case =>
        \A i \in 1..Len(input.arguments) :
            HoldsD(i) =>
                output.processed_args.v[i].val =
                    PyStr(Replace(input.arguments[i].val.v, Placeholder("d"),
                                  Placeholder("e")))

\* C24: the declared variables are substituted one after the other in the
\* order of their declaration: the placeholder ${e} brought in by the value
\* of d is left unexpanded when e is declared before d, and is replaced by
\* the value of e when e is declared after d
C24_DeclarationOrder ==
    C24_Case =>
        \A i \in 1..Len(input.arguments) :
            HoldsD(i) =>
                output.processed_args.v[i].val =
                    PyStr(Replace(input.arguments[i].val.v, Placeholder("d"),
                                  IF DeclaredFirst THEN <<"E">> ELSE Placeholder("e")))

C24_Witness ==
    /\ C24_Case
    /\ DeclaredFirst
    /\ input.arguments[1].val = PyStr(Placeholder("d") \o <<"/f.txt">>)
    /\ output.processed_args.v[1].val = PyStr(<<"E", "/f.txt">>)

\* what the string s becomes as a top-level argument, with the variables and
\* results of the input
AtTopLevel(s) ==
    _process_template_vars(<<Arg("path", s)>>, input.template_vars, input.results)

\* the value processed to out is what a top-level string would have become
SameAsTopLevel(s, out) == AtTopLevel(s).k = "dict" /\ out = AtTopLevel(s).v[1].val

\* the string items of the list argument i are substituted as at top level
ListItemsAsTopLevel(i) ==
    \A j \in 1..Len(input.arguments[i].val.v) :
        input.arguments[i].val.v[j].k = "str" =>
            SameAsTopLevel(input.arguments[i].val.v[j],
                           output.processed_args.v[i].val.v[j])

\* the strings of the nested mapping argument i are substituted as at top level
NestedStringsAsTopLevel(i) ==
    \A j \in 1..Len(input.arguments[i].val.v) :
        input.arguments[i].val.v[j].val.k = "str" =>
            SameAsTopLevel(input.arguments[i].val.v[j].val,
                           output.processed_args.v[i].val.v[j].val)

\* scalars that are not strings come out as they went in, at top level and
\* as items of a list
ScalarsPassThrough(i) ==
    /\ input.arguments[i].val.k \in {"int", "none", "bool"} =>
          output.processed_args.v[i].val = input.arguments[i].val
    /\ input.arguments[i].val.k = "list" =>
          \A j \in 1..Len(input.arguments[i].val.v) :
              input.arguments[i].val.v[j].k \in {"int", "none", "bool"} =>
                  output.processed_args.v[i].val.v[j] = input.arguments[i].val.v[j]

\* every variable declared is static and has a value
StaticWithValue ==
    \A n \in 1..Len(input.template_vars) :
        /\ Has(input.template_vars[n].val, "type")
        /\ input.template_vars[n].val.type = "static"
        /\ Has(input.template_vars[n].val, "value")

\* every variable declared is static, or reads the result of a named task
StaticOrTaskResult ==
    \A n \in 1..Len(input.template_vars) :
        /\ Has(input.template_vars[n].val, "type")
        /\ \/ input.template_vars[n].val.type = "static"
           \/ /\ input.template_vars[n].val.type = "task_result"
              /\ Has(input.template_vars[n].val, "task_id")

C25_Case == TemplateDone /\ output.processed_args.k = "dict"

\* C25 as stated: a placeholder in a string item of a list, or in a string of
\* a nested mapping, is replaced as in a top-level string, whatever the source
C25_Original ==
    C25_Case =>
        \A i \in 1..Len(input.arguments) :
            /\ input.arguments[i].val.k = "list" /\ StaticOrTaskResult =>
                  ListItemsAsTopLevel(i)
            /\ input.arguments[i].val.k = "dict" => NestedStringsAsTopLevel(i)
            /\ ScalarsPassThrough(i)

\* C25, the part the code keeps: strings of a nested mapping are substituted
\* as top-level strings for every source, string items of a list are when
\* every variable is static with a value, and scalars that are not strings
\* pass through unchanged
C25_NestedAndStaticAsTopLevel ==
    C25_Case =>
        \A i \in 1..Len(input.arguments) :
            /\ input.arguments[i].val.k = "list" /\ StaticWithValue =>
                  ListItemsAsTopLevel(i)
            /\ input.arguments[i].val.k = "dict" => NestedStringsAsTopLevel(i)
            /\ ScalarsPassThrough(i)

C25_Witness ==
    /\ C25_Case
    /\ input.template_vars = <<Var("d", [type |-> "static", value |-> PyStr(<<"S">>)])>>
    /\ input.arguments[1].val = PyList(<<PyStr(Placeholder("d") \o <<"/f.txt">>), PyInt(7)>>)
    /\ output.processed_args.v[1].val = PyList(<<PyStr(<<"S", "/f.txt">>), PyInt(7)>>)

\* the loop evaluates a task that passes its dependency check, has no
\* condition, and has a task_result variable without task_id whose
\* placeholder stands in a string argument: the substitution raises KeyError
SubstitutionRaises ==
    /\ LoopStep
    /\ DepsSatisfied(CurrentTask)
    /\ ~Has(CurrentTask, "condition")
    /\ Has(CurrentTask, "template_vars")
    /\ \E n \in 1..Len(CurrentTask.template_vars) :
          /\ Has(CurrentTask.template_vars[n].val, "type")
          /\ CurrentTask.template_vars[n].val.type = "task_result"
          /\ ~Has(CurrentTask.template_vars[n].val, "task_id")
          /\ \E i \in 1..Len(TaskArguments(CurrentTask)) :
                /\ TaskArguments(CurrentTask)[i].val.k = "str"
                /\ Contains(TaskArguments(CurrentTask)[i].val.v,
                            <<"$", "{">> \o CurrentTask.template_vars[n].key \o <<"}">>)

\* C26: when an exception is raised inside the loop of execute_plan (here by
\* the substitution of a malformed template variable), execute_plan returns a
\* report with success false, the message of the exception in error, and
\* results, completed_tasks and failed_tasks as they were before the
\* exception; the tool of the task is not called and nothing happens after
\* the report is returned
C26_ExceptionEndsRun ==
    [][/\ SubstitutionRaises =>
             /\ pc' = "done"
             /\ report' = [success |-> FALSE,
                           error |-> <<"Error executing plan: ", "'task_id'">>,
                           plan_name |-> plan.name, results |-> results,
                           completed_tasks |-> completed_tasks,
                           failed_tasks |-> failed_tasks]
             /\ results' = results
             /\ completed_tasks' = completed_tasks
             /\ failed_tasks' = failed_tasks
             /\ ~ToolTouched
       /\ pc = "done" => FALSE]_vars

\* the second of three tasks raised after the first had been run: the report
\* carries the result of the first and the third was never evaluated
C26_Witness ==
    /\ pc = "done"
    /\ last.kind = "exception"
    /\ Len(plan.tasks.v) = 3
    /\ idx = 3
    /\ DOMAIN report.results = {"t1"}
    /\ Len(report.completed_tasks) + Len(report.failed_tasks) = 1
    /\ report.success = FALSE
    /\ Len(execution_history) = 1

\* C27: validate_plan and execute_plan leave the plan as it was given: the
\* plan execute_plan works on is one of the plans handed in, and no step of
\* the validation, of the loop or of the return changes its tasks, their
\* arguments, depends_on, condition or template_vars
C27_PlanUnchanged ==
    [][IF pc = "idle" THEN plan' \in PipelinePlans ELSE plan' = plan]_vars

\* a run is over in which the substitution gave the tool arguments that
\* differ from the ones the plan still declares
C27_Witness ==
    /\ pc = "done"
    /\ plan \in PipelinePlans
    /\ Len(execution_history) = 2
    /\ Has(plan.tasks.v[2], "template_vars")
    /\ execution_history[2].task_id = plan.tasks.v[2].id
    /\ execution_history[2].arguments # TaskArguments(plan.tasks.v[2])
    /\ TaskArguments(plan.tasks.v[2])[1].val = PyStr(Placeholder("d") \o <<"/f.txt">>)

\* the position at which the task of that id is declared in the plan
Position(id) == CHOOSE i \in 1..Len(plan.tasks.v) : plan.tasks.v[i].id = id

\* the task depends on a task declared after it
DependsOnLaterTask ==
    /\ Has(CurrentTask, "depends_on")
    /\ \E n \in 1..Len(CurrentTask.depends_on.v) :
          \E i \in (idx + 1)..Len(plan.tasks.v) :
              plan.tasks.v[i].id = CurrentTask.depends_on.v[n]

\* C28: the loop of execute_plan takes the tasks in the order of their
\* declaration, one position at a time and never back; a step calls at most
\* the tool of the task at that position, once, so the entries of the
\* execution history follow the order of declaration with no task twice; and
\* a task that depends on a task declared after it is recorded failed with
\* "Dependencies not met" without its tool being called
C28_DeclarationOrder ==
    [][pc = "loop" /\ idx' # idx =>
          /\ idx' = idx + 1
          /\ last'.idx = idx
          /\ last'.id = CurrentTask.id
          /\ \/ events' = events /\ execution_history' = execution_history
             \/ /\ Len(execution_history') = Len(execution_history) + 1
                /\ execution_history'[Len(execution_history')].task_id = CurrentTask.id
                /\ \A h \in 1..Len(execution_history) :
                       Position(execution_history[h].task_id) < idx
                /\ \/ events' = events
                   \/ /\ Len(events') = Len(events) + 1
                      /\ SubSeq(events', 1, Len(events)) = events
                      /\ events'[Len(events')].op = "execute"
                      /\ events'[Len(events')].tool = CurrentTask.tool_name
          /\ DependsOnLaterTask =>
                /\ results' = Put(results, CurrentTask.id, SkippedForDependencies)
                /\ failed_tasks' = Append(failed_tasks, CurrentTask.id)
                /\ ~ToolTouched]_vars

\* t1 depends on t3, declared after it: t1 was refused, then t3 ran and
\* succeeded, and t1 is still among the failed tasks of the report
C28_Witness ==
    /\ pc = "done"
    /\ Len(plan.tasks.v) = 3
    /\ Has(plan.tasks.v[1], "depends_on")
    /\ plan.tasks.v[1].depends_on.v = <<"t3">>
    /\ report.results["t1"] = SkippedForDependencies
    /\ InSeq("t1", report.failed_tasks)
    /\ InSeq("t3", report.completed_tasks)
    /\ Len(execution_history) = 2
    /\ execution_history[1].task_id = "t2"
    /\ execution_history[2].task_id = "t3"

\* validate_plan has returned for the plan of SpecValidate
Validated == pc = "validate" /\ output # NoOutput

\* the checks made before the cycle check find nothing in the plan: its
\* fields, a task list that is not empty, id and registered tool of every
\* task, declared ids in every depends_on and condition
PassesEarlierChecks(p) ==
    /\ Has(p, "name") /\ Has(p, "description") /\ Has(p, "tasks")
    /\ p.tasks.k = "list"
    /\ Len(p.tasks.v) > 0
    /\ \A i \in 1..Len(p.tasks.v) :
          /\ "id" \in DOMAIN p.tasks.v[i]
          /\ "tool_name" \in DOMAIN p.tasks.v[i]
          /\ p.tasks.v[i].tool_name \in DOMAIN tools
          /\ "arguments" \in DOMAIN p.tasks.v[i] => p.tasks.v[i].arguments.k = "dict"
    /\ \A i \in 1..Len(p.tasks.v) :
          /\ DependsOn(p.tasks.v[i]) \subseteq {p.tasks.v[j].id : j \in 1..Len(p.tasks.v)}
          /\ "condition" \in DOMAIN p.tasks.v[i] =>
                /\ "type" \in DOMAIN p.tasks.v[i].condition.v
                /\ p.tasks.v[i].condition.v.type \in {"task_result", "expression"}
                /\ p.tasks.v[i].condition.v.type = "task_result" =>
                      /\ "task_id" \in DOMAIN p.tasks.v[i].condition.v
                      /\ p.tasks.v[i].condition.v.task_id
                            \in {p.tasks.v[j].id : j \in 1..Len(p.tasks.v)}

\* the tasks at positions i and j list each other; i = j is a task that
\* lists its own id
ListEachOther(tasks, i, j) ==
    /\ tasks[j].id \in DependsOn(tasks[i])
    /\ tasks[i].id \in DependsOn(tasks[j])

MutualPairs(tasks) ==
    {pair \in (1..Len(tasks)) \X (1..Len(tasks)) : ListEachOther(tasks, pair[1], pair[2])}

DistinctIds(tasks) ==
    \A i, j \in 1..Len(tasks) : i # j => tasks[i].id # tasks[j].id

CircularError(a, b) ==
    <<"Circular dependency detected between tasks '", a, "' and '", b, "'">>

\* the error names two tasks of the plan that list each other
CircularErrorForPair(tasks, error) ==
    \E pair \in MutualPairs(tasks) :
        error = CircularError(tasks[pair[1]].id, tasks[pair[2]].id)

C29_Case ==
    /\ Validated
    /\ PassesEarlierChecks(input.plan)
    /\ MutualPairs(input.plan.tasks.v) # {}

\* C29 as stated: every plan in which two tasks list each other, or a task
\* lists itself, is rejected with the circular-dependency error
C29_Original ==
    C29_Case => CircularErrorForPair(input.plan.tasks.v, output.error)

\* C29, for plans whose task ids differ from one another: a plan in which two
\* tasks list each other in depends_on, whichever is declared first, or in
\* which a task lists its own id, is rejected with the circular-dependency
\* error naming such a pair
C29_MutualPairRejected ==
    C29_Case /\ DistinctIds(input.plan.tasks.v) =>
        CircularErrorForPair(input.plan.tasks.v, output.error)

\* the second of three tasks lists the third and the third lists the second
C29_Witness ==
    /\ C29_Case
    /\ DistinctIds(input.plan.tasks.v)
    /\ Len(input.plan.tasks.v) = 3
    /\ MutualPairs(input.plan.tasks.v) = {<<2, 3>>, <<3, 2>>}
    /\ output.error = CircularError("t2", "t3")

RECURSIVE Closure(_, _, _)
\* the ids reached from the ids S in at most k more steps along depends_on
Closure(tasks, S, k) ==
    IF k = 0 THEN S
    ELSE Closure(tasks,
                 S \cup UNION {DependsOn(tasks[j]) :
                                 j \in {m \in 1..Len(tasks) : tasks[m].id \in S}},
                 k - 1)

\* the positions of the tasks that reach themselves along depends_on
OnCycle(tasks) ==
    {i \in 1..Len(tasks) : tasks[i].id \in Closure(tasks, DependsOn(tasks[i]), Len(tasks))}

\* execute_plan has returned for a plan, well formed but for a cycle of three
\* or more tasks, that has stop_on_failure false
C30_Case ==
    /\ pc = "done"
    /\ PassesEarlierChecks(plan)
    /\ DistinctIds(plan.tasks.v)
    /\ MutualPairs(plan.tasks.v) = {}
    /\ OnCycle(plan.tasks.v) # {}
    /\ Has(plan, "stop_on_failure")
    /\ plan.stop_on_failure = PyFalse

\* the plan passed validate_plan, and every task on the cycle is in
\* failed_tasks with "Dependencies not met" and was never handed to a tool
C30_Outcome ==
    /\ validate_plan(plan) = NoError
    /\ ~(Len(report.error) > 0 /\ report.error[1] = "Invalid plan: ")
    /\ \A i \in OnCycle(plan.tasks.v) :
          /\ InSeq(plan.tasks.v[i].id, report.failed_tasks)
          /\ ~InSeq(plan.tasks.v[i].id, report.completed_tasks)
          /\ plan.tasks.v[i].id \in DOMAIN report.results
          /\ report.results[plan.tasks.v[i].id] = SkippedForDependencies
          /\ \A h \in 1..Len(execution_history) :
                execution_history[h].task_id # plan.tasks.v[i].id
    /\ Cardinality(Executions) = Len(plan.tasks.v) - Cardinality(OnCycle(plan.tasks.v))

\* C30 as stated: whenever such a plan is handed to execute_plan
C30_Original == C30_Case => C30_Outcome

\* C30: a plan whose dependencies form a cycle of three or more tasks and
\* that is otherwise well formed passes validate_plan; when it is executed
\* with stop_on_failure false and the batched permission request, if the plan
\* needs one, is granted, every task on the cycle ends in failed_tasks with
\* the error "Dependencies not met" and none of their tools is called
C30_LongCycleFailsAtRuntime == C30_Case /\ ~BatchDenied => C30_Outcome

\* a ring of three tasks after an independent one: the first task ran, the
\* three on the ring failed in turn
C30_Witness ==
    /\ C30_Case
    /\ ~BatchDenied
    /\ Len(plan.tasks.v) = 4
    /\ OnCycle(plan.tasks.v) = {2, 3, 4}
    /\ Len(execution_history) = 1
    /\ SubSeq(report.failed_tasks, Len(report.failed_tasks) - 2, Len(report.failed_tasks))
          = <<"t1", "t2", "t3">>

\* the tasks of a plan, none when tasks is missing or not a list
TasksOf(p) == IF Has(p, "tasks") /\ p.tasks.k = "list" THEN p.tasks.v ELSE <<>>

\* what is wrong with the plan as a whole: kind 1 name, 2 description,
\* 3 tasks missing or not a list, 4 no task
PlanViolations(p) ==
    {[kind |-> "plan", i |-> 0, n |-> 1, msg |-> <<"Plan missing 'name' field">>] :
        x \in {1} \ {k \in {1} : Has(p, "name")}}
    \cup
    {[kind |-> "plan", i |-> 0, n |-> 2, msg |-> <<"Plan missing 'description' field">>] :
        x \in {1} \ {k \in {1} : Has(p, "description")}}
    \cup
    {[kind |-> "plan", i |-> 0, n |-> 3,
      msg |-> <<"Plan missing 'tasks' list or 'tasks' is not a list">>] :
        x \in {1} \ {k \in {1} : Has(p, "tasks") /\ p.tasks.k = "list"}}
    \cup
    {[kind |-> "plan", i |-> 0, n |-> 4, msg |-> <<"Plan contains no tasks">>] :
        x \in {k \in {1} : Has(p, "tasks") /\ p.tasks.k = "list" /\ Len(p.tasks.v) = 0}}

\* what is wrong with the fields of the task at position i
FieldViolations(tasks, i) ==
    LET task == tasks[i]
        index == StrOfNat(i - 1)
    IN {[kind |-> "id", i |-> i, n |-> 0,
         msg |-> <<"Task at index ", index, " missing 'id' field">>] :
            x \in {k \in {1} : "id" \notin DOMAIN task}}
       \cup
       {[kind |-> "tool_name", i |-> i, n |-> 0,
         msg |-> <<"Task at index ", index, " missing 'tool_name' field">>] :
            x \in {k \in {1} : "id" \in DOMAIN task /\ "tool_name" \notin DOMAIN task}}
       \cup
       {[kind |-> "registry", i |-> i, n |-> 0,
         msg |-> <<"Task '", task.id, "' references unknown tool '", task.tool_name, "'">>] :
            x \in {k \in {1} : /\ "id" \in DOMAIN task
                               /\ "tool_name" \in DOMAIN task
                               /\ task.tool_name \notin DOMAIN tools}}
       \cup
       {[kind |-> "arguments", i |-> i, n |-> 0,
         msg |-> <<"Task '", task.id, "' has invalid 'arguments' (must be a dictionary)">>] :
            x \in {k \in {1} : /\ "id" \in DOMAIN task
                               /\ "arguments" \in DOMAIN task
                               /\ task.arguments.k # "dict"}}

\* the ids declared by the tasks that have one
IdsOf(tasks) == {tasks[j].id : j \in {m \in 1..Len(tasks) : "id" \in DOMAIN tasks[m]}}

\* the depends_on entries of the task at position i that name no task
DependencyViolations(tasks, i) ==
    LET task == tasks[i]
    IN IF "id" \in DOMAIN task /\ "depends_on" \in DOMAIN task
       THEN {[kind |-> "depends_on", i |-> i, n |-> n,
              msg |-> <<"Task '", task.id, "' depends on unknown task '",
                        task.depends_on.v[n], "'">>] :
                n \in {m \in 1..Len(task.depends_on.v) :
                         task.depends_on.v[m] \notin IdsOf(tasks)}}
       ELSE {}

\* what is wrong with the condition of the task at position i
ConditionViolations(tasks, i) ==
    LET task == tasks[i]
        bad(text) == {[kind |-> "condition", i |-> i, n |-> 0, msg |-> text]}
    IN IF "id" \notin DOMAIN task \/ "condition" \notin DOMAIN task THEN {}
       ELSE IF "type" \notin DOMAIN task.condition.v
       THEN bad(<<"Task '", task.id, "' condition missing 'type' field">>)
       ELSE IF task.condition.v.type \notin {"task_result", "expression"}
       THEN bad(<<"Task '", task.id, "' has invalid condition type '",
                  task.condition.v.type, "'">>)
       ELSE IF task.condition.v.type = "expression" THEN {}
       ELSE IF "task_id" \notin DOMAIN task.condition.v
       THEN bad(<<"Task '", task.id, "' condition missing 'task_id' field">>)
       ELSE IF task.condition.v.task_id \notin IdsOf(tasks)
       THEN bad(<<"Task '", task.id, "' condition references unknown task '",
                  task.condition.v.task_id, "'">>)
       ELSE {}

\* the depends_on entries of the task at position i that name a task which
\* lists the task at position i in turn
PairViolations(tasks, i) ==
    LET task == tasks[i]
    IN IF "id" \in DOMAIN task /\ "depends_on" \in DOMAIN task
       THEN {[kind |-> "pair", i |-> i, n |-> n,
              msg |-> <<"Circular dependency detected between tasks '", task.id,
                        "' and '", task.depends_on.v[n], "'">>] :
                n \in {m \in 1..Len(task.depends_on.v) :
                         \E j \in 1..Len(tasks) :
                            /\ "id" \in DOMAIN tasks[j]
                            /\ tasks[j].id = task.depends_on.v[m]
                            /\ task.id \in DependsOn(tasks[j])}}
       ELSE {}

\* everything the rules of validate_plan find wrong in the plan
Violations(p) ==
    PlanViolations(p)
    \cup UNION {FieldViolations(TasksOf(p), i) \cup DependencyViolations(TasksOf(p), i)
                \cup ConditionViolations(TasksOf(p), i) \cup PairViolations(TasksOf(p), i)
                  : i \in 1..Len(TasksOf(p))}

\* the place of a violation in the order in which validate_plan looks: the
\* plan, then task by task id, tool_name, arguments and registry, then the
\* dependencies of every task, the conditions of every task, the pairs
CodeOrder(v) ==
    CASE v.kind = "plan" -> v.n
      [] v.kind = "id" -> 1000 + 100 * v.i + 1
      [] v.kind = "tool_name" -> 1000 + 100 * v.i + 2
      [] v.kind = "arguments" -> 1000 + 100 * v.i + 3
      [] v.kind = "registry" -> 1000 + 100 * v.i + 4
      [] v.kind = "depends_on" -> 2000 + 100 * v.i + v.n
      [] v.kind = "condition" -> 3000 + 100 * v.i
      [] v.kind = "pair" -> 4000 + 100 * v.i + v.n

\* the same with the registry looked up before the arguments
ClaimedOrder(v) ==
    CASE v.kind = "registry" -> 1000 + 100 * v.i + 3
      [] v.kind = "arguments" -> 1000 + 100 * v.i + 4
      [] OTHER -> CodeOrder(v)

\* the message of the violation that comes first in the order
FirstBy(vs, order(_)) ==
    IF vs = {} THEN NoError
    ELSE (CHOOSE v \in vs : \A w \in vs : order(v) <= order(w)).msg

\* validate_plan has returned for a plan in which no two tasks share an id
C31_Case ==
    /\ Validated
    /\ \A i, j \in 1..Len(TasksOf(input.plan)) :
          /\ i # j
          /\ "id" \in DOMAIN TasksOf(input.plan)[i]
          /\ "id" \in DOMAIN TasksOf(input.plan)[j]
          => TasksOf(input.plan)[i].id # TasksOf(input.plan)[j].id

\* C31 as stated: the registry is looked up before the arguments are checked
C31_Original ==
    C31_Case => output.error = FirstBy(Violations(input.plan), ClaimedOrder)

\* C31: when a plan breaks more than one rule, validate_plan reports the
\* violation it meets first in this order: name, description, tasks is a
\* list, tasks is not empty; then task by task: id, tool_name, arguments is a
\* mapping, tool_name is in the registry; then the depends_on ids of every
\* task; then the condition of every task; then the symmetric pairs
C31_FirstViolationReported ==
    C31_Case => output.error = FirstBy(Violations(input.plan), CodeOrder)

\* a task with an unregistered tool and arguments that are no mapping: the
\* arguments are reported
C31_Witness ==
    /\ C31_Case
    /\ Cardinality(Violations(input.plan)) >= 2
    /\ \E v, w \in Violations(input.plan) :
          /\ v.kind = "arguments" /\ w.kind = "registry" /\ v.i = w.i
          /\ output.error = v.msg

\* get_plan_schema: the fields the JSON Schema marks as required, for the
\* plan and for the items of tasks
get_plan_schema ==
    [required |-> {"name", "tasks"},
     items_required |-> {"id", "tool_name"}]

\* the plan has every field the schema requires, of the plan and of each task
HasSchemaRequired(p) ==
    /\ get_plan_schema.required \subseteq DOMAIN p
    /\ \A i \in 1..Len(TasksOf(p)) :
          get_plan_schema.items_required \subseteq DOMAIN TasksOf(p)[i]

\* the plan has the required fields, a non-empty list of tasks with known
\* tools, and nothing else that validate_plan objects to in a field it has
C32_Case ==
    /\ Validated
    /\ HasSchemaRequired(input.plan)
    /\ input.plan.tasks.k = "list"
    /\ Len(input.plan.tasks.v) > 0
    /\ \A v \in Violations(input.plan) : v.kind = "plan"

\* C32: validate_plan requires exactly the top-level and per-task fields that
\* get_plan_schema marks as required (plan: name, tasks; task: id,
\* tool_name): a plan that has these, known tools and a non-empty task list
\* is accepted even when every optional field, description included, is absent
C32_Original ==
    /\ C32_Case => output.error = NoError
    /\ Validated /\ ~HasSchemaRequired(input.plan) => output.error # NoError

\* what the code does: such a plan is accepted exactly when it also has a
\* description; every other field outside the schema's lists may be absent
C32_DescriptionAlsoRequired ==
    /\ C32_Case => (output.error = NoError <=> "description" \in DOMAIN input.plan)
    /\ Validated /\ ~HasSchemaRequired(input.plan) => output.error # NoError

\* a plan with name and tasks, a task with only id and tool_name, and no
\* description: rejected for the description
C32_Witness ==
    /\ C32_Case
    /\ DOMAIN input.plan = get_plan_schema.required
    /\ \A i \in 1..Len(input.plan.tasks.v) :
          DOMAIN input.plan.tasks.v[i] = get_plan_schema.items_required
    /\ output.error = <<"Plan missing 'description' field">>

\* a plan with a description and tasks of only id and tool_name is accepted
C32_WitnessAccepted ==
    /\ C32_Case
    /\ DOMAIN input.plan = get_plan_schema.required \cup {"description"}
    /\ \A i \in 1..Len(input.plan.tasks.v) :
          DOMAIN input.plan.tasks.v[i] = get_plan_schema.items_required
    /\ output.error = NoError

\* the ids the last task evaluated depends on
LastDependencies ==
    IF Has(LastTask, "depends_on")
    THEN {LastTask.depends_on.v[n] : n \in 1..Len(LastTask.depends_on.v)}
    ELSE {}

\* the task of that id was skipped because its condition was not met
ConditionSkipped(id) == Has(results, id) /\ results[id] = ConditionSkip

\* the loop has just handled a task of a plan with distinct ids, every
\* dependency of which was skipped because its condition was not met
C33_Case ==
    /\ pc \in {"loop", "stopped", "done"}
    /\ last.kind # "none"
    /\ DistinctIds(plan.tasks.v)
    /\ LastDependencies # {}
    /\ \A d \in LastDependencies : d # LastTask.id /\ ConditionSkipped(d)

InTurnAfter ==
    \E i \in 1..Len(call.after.current) :
        CallEq(call.after.current[i], CallKey(call.tool, call.arguments))

\* the agent's call was refused by the Permission Gate, so the capability was
\* not invoked; it was the first of its key in the turn, and nothing was
\* called since
DeniedFirstCall ==
    /\ DirectDone
    /\ KnownTool
    /\ ~InTurnBefore
    /\ ~Invoked
    /\ current_turn_tool_calls = call.after.current
    /\ trust_manager
    /\ PermissionRefused
    /\ \E i \in 1..Len(events) :
          events[i].op = "prompt_for_permission" /\ events[i].reply # "true"

\* C34: execute_tool returns the redundancy error for a (tool, arguments) key
\* only if the capability was invoked with that key earlier in the current
\* turn; a call that ended with a permission denial, the capability never
\* run, does not make an identical next call in the same turn redundant
C34_Original ==
    [][DeniedFirstCall /\ call' # call
       /\ call'.tool = call.tool /\ call'.arguments = call.arguments
       => ~RedundancyError']_vars

\* what the code does: a call of a known tool gets the redundancy error
\* exactly when its key is in the list of the turn, and a call that does not
\* get it leaves its key in that list whether or not the capability ran
C34_RecordedNotInvoked ==
    DirectDone /\ KnownTool =>
        /\ RedundancyError <=> InTurnBefore
        /\ InTurnAfter

\* a call refused by the Permission Gate has left its key in the list of the
\* turn
C34_Witness ==
    /\ DeniedFirstCall
    /\ call.kind = "return"
    /\ call.result.error = PyStr(<<"Permission denied for ", call.tool>>)
    /\ InTurnAfter

\* the last n entries of a sequence
LastOf(s, n) == IF Len(s) > n THEN SubSeq(s, Len(s) - n + 1, Len(s)) ELSE s

\* the call was recorded: its tool is known and its key was not in the list
\* of the turn
Recorded == KnownTool /\ ~InTurnBefore

\* the key of the call was in the bounded history when the call was made
InRecentBefore ==
    \E i \in 1..Len(call.before.recent) :
        CallEq(call.before.recent[i], CallKey(call.tool, call.arguments))

\* the history after a call: the last five of what it was with the key of a
\* recorded call added, of length five at most; the redundancy error depends
\* on the list of the turn alone
HistoryOfCall ==
    /\ Len(recent_tool_calls) <= 5
    /\ DirectDone =>
          /\ call.after.recent =
                IF Recorded
                THEN LastOf(Append(call.before.recent, CallKey(call.tool, call.arguments)), 5)
                ELSE call.before.recent
          /\ call.after.current =
                IF Recorded
                THEN Append(call.before.current, CallKey(call.tool, call.arguments))
                ELSE call.before.current
          /\ RedundancyError <=> KnownTool /\ InTurnBefore

\* a step that empties the list of the turn
Clearing == current_turn_tool_calls # <<>> /\ current_turn_tool_calls' = <<>>

\* C35: after any sequence of execute_tool calls recent_tool_calls has length
\* at most 5 and holds, in order, the most recent recorded calls: each
\* recorded call is added at the end and the oldest entries beyond five are
\* dropped; the redundancy decision depends only on current_turn_tool_calls;
\* and clearing current_turn_tool_calls leaves recent_tool_calls unchanged
C35_BoundedHistory ==
    /\ []HistoryOfCall
    /\ [][/\ recent_tool_calls' # recent_tool_calls
             => /\ call' # call \/ events' # events
                /\ recent_tool_calls' = call'.after.recent
                /\ recent_tool_calls = call'.before.recent
          /\ Clearing => recent_tool_calls' = recent_tool_calls]_vars

\* a sixth call was recorded: the oldest entry of a full history was dropped,
\* and the call was not redundant although its key was in the history
C35_Witness ==
    /\ DirectDone
    /\ Len(call.before.recent) = 5
    /\ Recorded
    /\ InRecentBefore
    /\ ~RedundancyError
    /\ call.after.recent =
          Tail(call.before.recent) \o <<CallKey(call.tool, call.arguments)>>
    /\ call.after.recent # call.before.recent

\* both subjects of a call of a tool that requires confirmation are known
SubjectsDerived ==
    /\ pc = "subject"
    /\ output # NoOutput
    /\ tools[input.tool_name].requires_confirmation

\* the positions of the string arguments with one of the names
StringsNamed(arguments, names) ==
    {i \in 1..Len(arguments) : arguments[i].key \in names /\ arguments[i].val.k = "str"}

\* the value at the first of the positions, null when there is none
FirstAt(arguments, positions) ==
    IF positions = {} THEN PyNone
    ELSE arguments[CHOOSE i \in positions : \A j \in positions : i <= j].val

\* a command of bash
BashCommand ==
    input.tool_name = "bash" /\ \E i \in 1..Len(input.arguments) : input.arguments[i].key = "command"

\* two subjects are the same
SameSubject(a, b) == a.k = b.k /\ a.v = b.v

\* C36: for every tool name and arguments map the permission subject the
\* planner puts into the batched approval request equals the subject
\* execute_tool would derive for the same tool and arguments: the whole
\* arguments map for bash with a command, else the first path-like string
\* argument, else null
C36_Original ==
    SubjectsDerived =>
        /\ Len(output.operations) = 1
        /\ output.operations[1].tool = input.tool_name
        /\ SameSubject(output.operations[1].path, output.permission_path)

\* what the code does: both are the whole arguments map for bash with a
\* command; otherwise the planner takes the first string argument named path
\* or file_path, and execute_tool the first named path, file_path or directory
C36_SubjectsByNames ==
    SubjectsDerived =>
        /\ Len(output.operations) = 1
        /\ output.operations[1].tool = input.tool_name
        /\ IF BashCommand
           THEN /\ output.operations[1].path.k = "args"
                /\ output.operations[1].path.v = input.arguments
                /\ SameSubject(output.operations[1].path, output.permission_path)
           ELSE /\ output.operations[1].path =
                      FirstAt(input.arguments,
                              StringsNamed(input.arguments, {"path", "file_path"}))
                /\ output.permission_path =
                      FirstAt(input.arguments,
                              StringsNamed(input.arguments,
                                           {"path", "file_path", "directory"}))

\* an argument named directory: the planner lists the subject null, where
\* execute_tool derives the directory
C36_Witness ==
    /\ SubjectsDerived
    /\ input.tool_name = "file_write"
    /\ input.arguments = <<Arg("directory", PyStr(<<"/a">>)), Arg("content", PyInt(7))>>
    /\ output.operations[1].path = PyNone
    /\ output.permission_path = PyStr(<<"/a">>)

\* two argument maps hold the same entries in the same order
SameArguments(a, b) ==
    /\ Len(a) = Len(b)
    /\ \A i \in 1..Len(a) : a[i].key = b[i].key /\ PyEq(a[i].val, b[i].val)

\* the permission subject of a call: the whole arguments map for bash with a
\* command, else the first string argument named path or file_path, else null
SubjectOf(tool_name, arguments) ==
    IF tool_name = "bash" /\ \E i \in 1..Len(arguments) : arguments[i].key = "command"
    THEN [k |-> "args", v |-> arguments]
    ELSE FirstAt(arguments, StringsNamed(arguments, {"path", "file_path"}))

\* the pair of the tool and the subject of these arguments is listed in the
\* batched request the Permission Gate granted
InApprovedBatch(tool_name, arguments) ==
    \E i \in BatchRequests :
        /\ events[i].reply = "true"
        /\ \E n \in 1..Len(events[i].arg.v) :
              LET listed == events[i].arg.v[n]
                  subject == SubjectOf(tool_name, arguments)
              IN /\ listed.tool = tool_name
                 /\ listed.path.k = subject.k
                 /\ IF subject.k = "args" THEN SameArguments(listed.path.v, subject.v)
                    ELSE listed.path.v = subject.v

\* the loop has just called the tool of a task, and the tool requires
\* confirmation
C37_Case ==
    /\ LastReachedTool
    /\ events[Len(events)].tool = LastTask.tool_name
    /\ tools[LastTask.tool_name].requires_confirmation

\* C37: for every task whose tool requires confirmation and is dispatched
\* during a plan run, the (tool_name, subject) pair derived from the
\* arguments passed to the tool, after template substitution, is one of the
\* pairs listed in the approved batched permission request
C37_Original ==
    C37_Case => InApprovedBatch(LastTask.tool_name, events[Len(events)].arg.v)

\* what the code does: the pair listed is that of the arguments as the plan
\* declares them; the pair of the arguments passed is listed when the
\* substitution left the subject as it was
C37_DeclaredSubjectApproved ==
    C37_Case =>
        /\ InApprovedBatch(LastTask.tool_name, TaskArguments(LastTask))
        /\ ~Has(LastTask, "template_vars")
           => /\ SameArguments(events[Len(events)].arg.v, TaskArguments(LastTask))
              /\ InApprovedBatch(LastTask.tool_name, events[Len(events)].arg.v)

\* file_write was called with a path that the substitution completed, while
\* the request granted lists the path with its placeholder
C37_Witness ==
    /\ C37_Case
    /\ LastTask.tool_name = "file_write"
    /\ Has(LastTask, "template_vars")
    /\ SubjectOf("file_write", events[Len(events)].arg.v) = PyStr(<<"/home/u", "/f.txt">>)
    /\ SubjectOf("file_write", TaskArguments(LastTask)) =
          PyStr(<<"$", "{", "d", "}", "/f.txt">>)
    /\ InApprovedBatch("file_write", TaskArguments(LastTask))
    /\ ~InApprovedBatch("file_write", events[Len(events)].arg.v)

\* the key of the call the loop is about to make for the task at idx
CurrentKey == CallKey(CurrentTask.tool_name, ResolvedArguments(CurrentTask, results).v)

\* the key is in the list of the turn
RecordedInTurn(key) ==
    \E i \in 1..Len(current_turn_tool_calls) : CallEq(current_turn_tool_calls[i], key)

\* the result execute_tool returns for a redundant call of the tool
RedundancyResult(tool_name) ==
    [success |-> PyFalse,
     error |-> PyStr(<<"Identical ", tool_name,
                       " call was already executed in this conversation turn.",
                       " Please check your context for the previous result.">>)]

\* a step of the loop that calls execute_tool with a key already in the list
\* of the turn
RedundantTaskStep ==
    /\ LoopStep
    /\ last'.kind \in {"dispatched", "exception"}
    /\ ResolvedArguments(CurrentTask, results).k # "exc"
    /\ RecordedInTurn(CurrentKey)

\* C38: execute_plan never clears the turn-scoped redundancy list, and a task
\* whose (tool_name, resolved arguments) key was already recorded in the
\* current turn, by an earlier task of the plan or by a call made before the
\* plan, is recorded in failed_tasks with the redundancy error, its capability
\* not being invoked again
C38_RedundantTaskFails ==
    [][/\ pc # "idle" \/ pc' # "idle"
          => /\ Len(current_turn_tool_calls') >= Len(current_turn_tool_calls)
             /\ SubSeq(current_turn_tool_calls', 1, Len(current_turn_tool_calls))
                   = current_turn_tool_calls
       /\ RedundantTaskStep
          => /\ last'.kind = "dispatched"
             /\ results'[CurrentTask.id] = RedundancyResult(CurrentTask.tool_name)
             /\ failed_tasks' = Append(failed_tasks, CurrentTask.id)
             /\ completed_tasks' = completed_tasks
             /\ events' = events
             /\ current_turn_tool_calls' = current_turn_tool_calls
             /\ recent_tool_calls' = recent_tool_calls]_vars

\* the second of two tasks with the same call has failed as redundant, after
\* the first had its capability invoked
C38_WitnessSamePlan ==
    /\ pc \in {"loop", "stopped"}
    /\ last.idx = 2
    /\ last.kind = "dispatched"
    /\ results[LastTask.id] = RedundancyResult(LastTask.tool_name)
    /\ failed_tasks = <<LastTask.id>>
    /\ Len(completed_tasks) = 1
    /\ Cardinality({i \in 1..Len(events) : events[i].op = "execute"}) = 1

\* the first task of a plan has failed as redundant: the agent had made the
\* same call before the plan, in the same turn
C38_Witness ==
    /\ pc \in {"loop", "stopped"}
    /\ last.idx = 1
    /\ last.kind = "dispatched"
    /\ results[LastTask.id] = RedundancyResult(LastTask.tool_name)
    /\ failed_tasks = <<LastTask.id>>
    /\ current_turn_tool_calls = <<CallKey(LastTask.tool_name, TaskArguments(LastTask))>>
    /\ events = <<>>

\* the text is the empty string
EmptyText(text) == \A i \in 1..Len(text) : text[i] = ""

\* execute_plan has returned a report
Reported == pc = "done" /\ report # NoReport

\* C39: in every report execute_plan returns (invalid plan, batch denial,
\* normal completion, stop on failure, engine exception) error is the empty
\* string if and only if success is true, and success true implies that
\* failed_tasks is empty
C39_ErrorIffNotSuccess ==
    Reported =>
        /\ report.success \in BOOLEAN
        /\ EmptyText(report.error) <=> report.success
        /\ report.success => report.failed_tasks = <<>>

\* the five kinds of report
InvalidPlanReported ==
    /\ Reported
    /\ Len(report.error) > 0
    /\ report.error[1] = "Invalid plan: "
BatchDenialReported ==
    /\ Reported
    /\ report.error = <<"Permission denied for task plan operations">>
CompletionReported ==
    /\ Reported
    /\ report.success
    /\ report.error = <<>>
    /\ Len(report.completed_tasks) = Len(plan.tasks.v)
StopOnFailureReported ==
    /\ Reported
    /\ StopOnFailure(plan)
    /\ Len(report.error) > 0
    /\ report.error[1] = "Failed tasks: "
    /\ Len(report.failed_tasks) = 1
    /\ Len(report.completed_tasks) + 1 < Len(plan.tasks.v)
EngineExceptionReported ==
    /\ Reported
    /\ Len(report.error) > 0
    /\ report.error[1] = "Error executing plan: "

\* a run that went on after a failure has reported: a task completed, a task
\* failed, success is false and the error names the failed task
C39_Witness ==
    /\ Reported
    /\ ~StopOnFailure(plan)
    /\ ~report.success
    /\ Len(report.completed_tasks) = 1
    /\ Len(report.failed_tasks) = 1
    /\ report.error = <<"Failed tasks: ", report.failed_tasks[1]>>

\* the ids of a list
IdsIn(list) == {list[i] : i \in 1..Len(list)}

\* no id stands twice in the list
NoIdTwice(list) == \A i, j \in 1..Len(list) : i # j => list[i] # list[j]

\* results and the two lists agree: the keys of results are the ids of the
\* two lists, the completed ones succeeded, the failed ones did not, and no
\* id is listed twice
Agree(res, completed, failed) ==
    /\ DOMAIN res = IdsIn(completed) \cup IdsIn(failed)
    /\ \A id \in IdsIn(completed) : res[id].success = PyTrue
    /\ \A id \in IdsIn(failed) : res[id].success = PyFalse
    /\ NoIdTwice(completed \o failed)

\* a valid plan with distinct task ids is in its loop or has reported
C40_Case ==
    /\ pc \in {"loop", "stopped", "done"}
    /\ plan # NoPlan
    /\ validate_plan(plan) = NoError
    /\ DistinctIds(plan.tasks.v)

\* C40: at every step of the execution loop and in the final report, for
\* plans with distinct task ids and tools that return a boolean success: the
\* key set of results is completed_tasks union failed_tasks, every id in
\* completed_tasks has results[id].success true, every id in failed_tasks has
\* results[id].success false, and neither list holds an id twice
C40_ResultsAgreeWithLists ==
    C40_Case =>
        /\ Agree(results, completed_tasks, failed_tasks)
        /\ Reported => Agree(report.results, report.completed_tasks, report.failed_tasks)
        /\ Reported => /\ report.results = results
                       /\ report.completed_tasks = completed_tasks
                       /\ report.failed_tasks = failed_tasks

\* a report with a completed and a failed task
C40_Witness ==
    /\ C40_Case
    /\ Reported
    /\ Len(report.completed_tasks) = 1
    /\ Len(report.failed_tasks) = 1
    /\ DOMAIN report.results = {"t1", "t2"}
    /\ report.results[report.failed_tasks[1]].success = PyFalse
    /\ report.results[report.completed_tasks[1]].success = PyTrue

\* in the loop after two tasks, one of them skipped for its condition
C40_WitnessInLoop ==
    /\ C40_Case
    /\ pc = "loop"
    /\ Len(completed_tasks) + Len(failed_tasks) = 2
    /\ \E id \in DOMAIN results : results[id] = ConditionSkip

====
